---- MODULE Spec2Model ----
(***************************************************************************)
(* A model of the keyboard RGB controller (luch4ik/asus-rgb).              *)
(*                                                                         *)
(*  SpecEngine : AnimationController of archive/kbdrgb.py with its worker  *)
(*               threads (flash, rainbow) and the shared stop_event.       *)
(*  SpecDaemon : RGBDaemon / DaemonState of archive/kbdrgb_daemon.py: main *)
(*               thread, signal handler, state-file poller, workers.       *)
(*  SpecIPC    : single-instance launch (main) and IPCListener of          *)
(*               archive/kbdrgb.py.                                        *)
(*                                                                         *)
(* Time is counted in tenths of a second.                                  *)
(***************************************************************************)
EXTENDS Integers, Sequences, FiniteSets, TLC

VARIABLES
    \* ---- AnimationController (archive/kbdrgb.py) ----
    thread,          \* self.thread: 0 for None, else the id of the worker thread
    stop_event,      \* self.stop_event, the one Event shared by every worker
    wk,              \* worker threads: id -> [style, interval, pc]
    nspawn,          \* number of worker threads created so far
    ctl,             \* the caller of start()/stop(): [pc, op, style, interval]
    devicePresent,   \* os.path.exists(dev_path)
    orphaned,        \* workers whose bounded join timed out
    stopReq,         \* workers that were the handle when stop_event.set() ran
    wrote,           \* workers that have issued a set_color
    checkedAfterStop,\* workers that tested the flag after their stop request
    \* ---- RGBDaemon / DaemonState (archive/kbdrgb_daemon.py) ----
    now,             \* the clock that stamps st_mtime
    sf,              \* DAEMON_STATE_FILE: [exists, complete, obj, mtime]
    d_stop_event,    \* DaemonState.stop_event: ends workers and the poll loop
    animation_thread,\* DaemonState.animation_thread: 0 for None, else a worker id
    dwk,             \* the daemon's worker threads: id -> [style, interval, pc]
    dspawn,          \* number of worker threads the daemon created
    proc,            \* main thread, signal handler, poller: [pc, args, joinee, ret]
    running,         \* RGBDaemon.running
    pidFile,         \* PID_FILE exists
    last_mtime,      \* watch_state_file's last_mtime
    retryOwed,       \* the poller's last read of the file failed
    unread,          \* the record in the file was completed after the poller's last read
    \* ---- main() and IPCListener (archive/kbdrgb.py) ----
    ipc_pc,          \* position of each launched process
    PID_FILE,        \* the liveness file: [exists, text] (text 0: no integer)
    SOCKET_FILE,     \* the socket path: [exists, owner]
    lpid,            \* main(): the pid read, then the peer connected to
    pidTaken,        \* a dead process's pid now names an unrelated process
    lst,             \* each instance's IPCListener: none, accepting, dead
    inbox,           \* connections waiting at each listener: <<[from, msg]>>
    devWrote,        \* processes that have written to the device
    wrotePid,        \* processes that have written PID_FILE
    boundSock,       \* processes that have bound SOCKET_FILE
    sentMsgs,        \* the messages each launcher has sent
    lstable,         \* launchers that have had a live first instance throughout
    foundStale,      \* launchers that found a stale or non-integer PID_FILE
    \* ---- the other programs, one variable each ----
    live,            \* LiveSender (archive/OldCode/archive/kbdrgb_gui.py)
    app,             \* AnimationController and its threads (kbdrgb.py)
    win,             \* MainWindow around the engine (archive/kbdrgb.py)
    ui,              \* IntegratedRGBController (archive/kbdrgb_integrated.py)
    br,              \* one breathing() thread
    col,             \* one set_color call site
    lq,              \* QueueHandler and log_queue (kbdrgb.py, archive/kbdrgb.py)
    lu,              \* breathing of kbdrgb.py with its live parameters
    rp,              \* one ripple() thread
    cy,              \* the intensities of one breathing run
    rb,              \* one rainbow run
    pt,              \* one pattern worker
    wd,              \* the watchdog and what it watches
    cli,             \* one run of the program with --mode
    dm               \* the daemon processes, call by call

engVars == <<thread, stop_event, wk, nspawn, ctl,
             orphaned, stopReq, wrote, checkedAfterStop>>

fileVars == <<now, sf>>
animVars == <<d_stop_event, animation_thread, dwk, dspawn>>
dmnVars == <<fileVars, animVars, proc, running, pidFile, last_mtime, retryOwed, unread>>

ipcVars == <<ipc_pc, PID_FILE, SOCKET_FILE, lpid, pidTaken, lst, inbox, devWrote, wrotePid,
             boundSock, sentMsgs, lstable, foundStale>>

vars == <<engVars, devicePresent, dmnVars, ipcVars, live, app, win, ui,
          br, col, lq, lu, rp, cy, rb, pt, wd, cli, dm>>

(***************************************************************************)
(* Bounds and program constants                                            *)
(***************************************************************************)
MaxWorkers == 2          \* worker threads one engine run may create

JOIN_TIMEOUT == 20       \* self.thread.join(timeout=2.0)

Intervals == {1, 30}     \* requested interval: 0.1 s and 3.0 s

AnimStyles == {"flash", "rainbow"}
Styles == AnimStyles \cup {"static", "unknown"}

WorkerIds == 1..MaxWorkers

SleepPcs == {"sleep_on", "sleep_off"}
DeadPcs == {"unborn", "stopped", "failed"}

IdleCtl == [pc |-> "idle", op |-> "stop", style |-> "static", interval |-> 1]

\* the caller's position once stop() has returned
AfterStop(op, style, ivl) ==
    IF op = "start"
    THEN [pc |-> "clear", op |-> op, style |-> style, interval |-> ivl]
    ELSE IdleCtl

Alive(w) == wk[w].pc \notin DeadPcs

AliveWorkers == {w \in WorkerIds : Alive(w)}

\* a thread that does not run (not created yet, or returned)
Ended(pc) == [style |-> "flash", interval |-> 1, pc |-> pc]

(***************************************************************************)
(* AnimationController.stop / start                                        *)
(***************************************************************************)
\* stop(), entered for operation op: a live handle gets the flag and a join,
\* a dead or empty handle is just cleared.
StopBeginNoJoin(op, style, ivl) ==
    /\ ctl.pc = "idle"
    /\ stop_event' = IF thread # 0 /\ Alive(thread) THEN TRUE ELSE stop_event
    /\ stopReq' = IF thread # 0 /\ Alive(thread) THEN stopReq \cup {thread} ELSE stopReq
    /\ thread' = 0
    /\ ctl' = AfterStop(op, style, ivl)
    /\ UNCHANGED <<wk, nspawn, devicePresent, orphaned, wrote, checkedAfterStop>>

StopBegin(op, style, ivl) ==
    /\ ctl.pc = "idle"
    /\ IF thread # 0 /\ Alive(thread)
       THEN /\ stop_event' = TRUE
            /\ stopReq' = stopReq \cup {thread}
            /\ ctl' = [pc |-> "join", op |-> op, style |-> style, interval |-> ivl]
            /\ UNCHANGED thread
       ELSE /\ thread' = 0
            /\ ctl' = AfterStop(op, style, ivl)
            /\ UNCHANGED <<stop_event, stopReq>>
    /\ UNCHANGED <<wk, nspawn, devicePresent, orphaned, wrote, checkedAfterStop>>

\* start(style, base_color, interval) up to the end of its self.stop() call
CallStartNoStop(style, ivl) ==
    /\ ctl.pc = "idle"
    /\ style \in AnimStyles => nspawn < MaxWorkers
    /\ ctl' = [pc |-> "clear", op |-> "start", style |-> style, interval |-> ivl]
    /\ UNCHANGED <<thread, stop_event, wk, nspawn, devicePresent,
                   orphaned, stopReq, wrote, checkedAfterStop>>

CallStart(style, ivl) ==
    /\ style \in AnimStyles => nspawn < MaxWorkers
    /\ StopBegin("start", style, ivl)

CallStop ==
    StopBegin("stop", "static", 1)

\* join returned because the worker ended
JoinReturn ==
    /\ ctl.pc = "join"
    /\ ~Alive(thread)
    /\ thread' = 0
    /\ ctl' = AfterStop(ctl.op, ctl.style, ctl.interval)
    /\ UNCHANGED <<stop_event, wk, nspawn, devicePresent,
                   orphaned, stopReq, wrote, checkedAfterStop>>

\* join(timeout=2.0) ran out: the worker sleeps longer than the timeout
JoinTimedOut ==
    /\ ctl.pc = "join"
    /\ Alive(thread)
    /\ wk[thread].pc \in SleepPcs
    /\ wk[thread].interval > JOIN_TIMEOUT
    /\ orphaned' = orphaned \cup {thread}
    /\ thread' = 0
    /\ ctl' = AfterStop(ctl.op, ctl.style, ctl.interval)
    /\ UNCHANGED <<stop_event, wk, nspawn, devicePresent,
                   stopReq, wrote, checkedAfterStop>>

\* self.stop_event.clear()
StartClear ==
    /\ ctl.pc = "clear"
    /\ stop_event' = FALSE
    /\ ctl' = [ctl EXCEPT !.pc = "dispatch"]
    /\ UNCHANGED <<thread, wk, nspawn, devicePresent,
                   orphaned, stopReq, wrote, checkedAfterStop>>

\* the rest of start(): path check, static write, or the new worker thread
StartDispatch ==
    /\ ctl.pc = "dispatch"
    /\ ctl' = IdleCtl
    /\ IF devicePresent /\ ctl.style \in AnimStyles
       THEN /\ nspawn' = nspawn + 1
            /\ thread' = nspawn + 1
            /\ wk' = [wk EXCEPT ![nspawn + 1] =
                        [style |-> ctl.style, interval |-> ctl.interval, pc |-> "init"]]
       ELSE UNCHANGED <<thread, wk, nspawn>>
    /\ UNCHANGED <<stop_event, devicePresent, orphaned, stopReq, wrote, checkedAfterStop>>

(***************************************************************************)
(* Worker threads: flash and rainbow                                       *)
(***************************************************************************)
\* if not disable_autonomous(dev_path): return
WorkerInit(w) ==
    /\ wk[w].pc = "init"
    /\ wk' = [wk EXCEPT ![w] = IF devicePresent THEN [wk[w] EXCEPT !.pc = "loop"]
                               ELSE Ended("failed")]
    /\ UNCHANGED <<thread, stop_event, nspawn, ctl, devicePresent,
                   orphaned, stopReq, wrote, checkedAfterStop>>

\* a test of stop_event.is_set(): the loop head, or flash's test between on and off
WorkerCheck(w) ==
    /\ wk[w].pc \in {"loop", "mid"}
    /\ wk' = [wk EXCEPT ![w] =
                IF stop_event THEN Ended("stopped")
                ELSE [wk[w] EXCEPT !.pc = IF wk[w].pc = "loop" THEN "on" ELSE "off"]]
    /\ checkedAfterStop' = IF w \in stopReq THEN checkedAfterStop \cup {w}
                           ELSE checkedAfterStop
    /\ UNCHANGED <<thread, stop_event, nspawn, ctl, devicePresent,
                   orphaned, stopReq, wrote>>

\* set_color(...): nothing is sent when the path is missing, and the result is
\* ignored by flash and rainbow
WorkerWrite(w) ==
    /\ wk[w].pc \in {"on", "off"}
    /\ wk' = [wk EXCEPT ![w].pc = IF wk[w].pc = "on" THEN "sleep_on" ELSE "sleep_off"]
    /\ wrote' = IF devicePresent THEN wrote \cup {w} ELSE wrote
    /\ UNCHANGED <<thread, stop_event, nspawn, ctl, devicePresent,
                   orphaned, stopReq, checkedAfterStop>>

\* time.sleep(interval) returns
WorkerWake(w) ==
    /\ wk[w].pc \in SleepPcs
    /\ wk' = [wk EXCEPT ![w].pc =
                IF wk[w].pc = "sleep_on" /\ wk[w].style = "flash" THEN "mid" ELSE "loop"]
    /\ UNCHANGED <<thread, stop_event, nspawn, ctl, devicePresent,
                   orphaned, stopReq, wrote, checkedAfterStop>>

\* the device node appears or disappears
DeviceToggle ==
    /\ devicePresent' = ~devicePresent
    /\ UNCHANGED <<thread, stop_event, wk, nspawn, ctl,
                   orphaned, stopReq, wrote, checkedAfterStop>>

(***************************************************************************)
(* The daemon: state file, DaemonState, RGBDaemon                          *)
(***************************************************************************)
MaxTime == 2             \* the clock runs from 1 to MaxTime

DAEMON_JOIN_TIMEOUT == 20     \* self.animation_thread.join(timeout=2.0)

DEFAULT_DEVICE_PATH == "/dev/hidraw1"

DaemonAnims == {"breathing", "rainbow"}

\* state records a writer may put into the file (JSON objects; a key that is
\* left out is filled in by apply_state)
Records ==
    { [style |-> "rainbow", interval |-> 30],
      [style |-> "static", color |-> <<255, 0, 0>>, intensity |-> 255,
       interval |-> 1, device_path |-> DEFAULT_DEVICE_PATH] }

NoFile == [exists |-> FALSE, complete |-> FALSE,
           obj |-> [style |-> "rainbow", interval |-> 30], mtime |-> 0]

\* state.get(key, default)
Get(state, key, default) == IF key \in DOMAIN state THEN state[key] ELSE default

\* apply_state: the arguments it passes to start_animation
ApplyArgs(state) ==
    [style |-> Get(state, "style", "static"),
     color |-> Get(state, "color", <<255, 255, 255>>),
     intensity |-> Get(state, "intensity", 255),
     interval |-> Get(state, "interval", 1),
     device_path |-> Get(state, "device_path", DEFAULT_DEVICE_PATH)]

NoArgs == ApplyArgs([style |-> "static"])

\* load_state(): the record, or None for a missing or unparseable file
LoadOk == sf.exists /\ sf.complete

Callers == {"main", "sig", "poller"}

DWorkerIds == 1..MaxWorkers

PAt(pc) == [pc |-> pc, args |-> NoArgs, joinee |-> 0, ret |-> "none"]

DAlive(w) == dwk[w].pc \notin DeadPcs

DAliveWorkers == {w \in DWorkerIds : DAlive(w)}

DeadWorker(pc) == [style |-> "rainbow", interval |-> 1, pc |-> pc]

Max(a, b) == IF a >= b THEN a ELSE b

\* the time.sleep of one step: rainbow sleeps interval, breathing sleeps
\* max(0.002, interval / steps) with steps = max(90, int(120 * interval))
DSleep(style, interval) ==
    IF style = "rainbow" THEN interval
    ELSE interval \div Max(90, 12 * interval)

\* a join(timeout=2.0) on w can run out: w sleeps longer than the timeout, or
\* the flag is clear again and w is not going to stop
JoinCanTimeOut(w) ==
    /\ DAlive(w)
    /\ \/ dwk[w].pc = "sleep_on" /\ DSleep(dwk[w].style, dwk[w].interval) > DAEMON_JOIN_TIMEOUT
       \/ ~d_stop_event

\* the signal handler runs on the main thread: main is suspended meanwhile
HandlerActive == proc["sig"].pc \notin {"idle", "done"}
CanRun(c) == c = "main" => ~HandlerActive

Signalled == proc["sig"].pc # "idle"

\* an exception raised in caller c: the poll loop logs it and sleeps; in the
\* main thread (also from the handler) it unwinds run() through its finally
RaiseIn(c) ==
    IF c = "poller" THEN [proc EXCEPT !["poller"] = PAt("p_sleep")]
    ELSE IF c = "main" THEN [proc EXCEPT !["main"] = PAt("m_finally")]
    ELSE [proc EXCEPT !["sig"] = PAt("done"), !["main"] = PAt("m_finally")]

\* where caller c goes on when start_animation returns
Finish(c) == IF c = "main" THEN PAt("m_watch") ELSE PAt("p_sleep")

\* a call of start_animation(args) by caller c
EnterStart(c, args) ==
    proc' = [proc EXCEPT ![c] =
               [pc |-> "sa_begin", args |-> args, joinee |-> 0, ret |-> "st_style"]]

(* ---- the state file and its writer (write_daemon_state) ---- *)
Tick ==
    /\ now < MaxTime
    /\ now' = now + 1
    /\ UNCHANGED <<sf, animVars, proc, running, pidFile, last_mtime, retryOwed, unread>>

\* open(DAEMON_STATE_FILE, 'w'): the file is truncated
W_Open(r) ==
    /\ ~sf.exists \/ sf.complete
    /\ sf' = [exists |-> TRUE, complete |-> FALSE, obj |-> r, mtime |-> now]
    /\ UNCHANGED <<now, animVars, proc, running, pidFile, last_mtime, retryOwed, unread>>

\* json.dump and close: the record is in the file
W_Close ==
    /\ sf.exists /\ ~sf.complete
    /\ sf' = [sf EXCEPT !.complete = TRUE, !.mtime = now]
    /\ unread' = TRUE
    /\ UNCHANGED <<now, animVars, proc, running, pidFile, last_mtime, retryOwed>>

(* ---- DaemonState.stop_animation, run by caller c ---- *)
SA_Begin(c) ==
    /\ CanRun(c)
    /\ proc[c].pc = "sa_begin"
    /\ IF animation_thread # 0 /\ DAlive(animation_thread)
       THEN /\ d_stop_event' = TRUE
            /\ proc' = [proc EXCEPT ![c].pc = "sa_join"]
       ELSE /\ proc' = [proc EXCEPT ![c].pc = "sa_clear"]
            /\ UNCHANGED d_stop_event
    /\ UNCHANGED <<fileVars, animation_thread, dwk, dspawn, running, pidFile,
                   last_mtime, retryOwed, unread>>

\* self.animation_thread.join(timeout=2.0): the attribute is read again
SA_JoinCall(c) ==
    /\ CanRun(c)
    /\ proc[c].pc = "sa_join"
    /\ proc' = IF animation_thread = 0 THEN RaiseIn(c)
               ELSE [proc EXCEPT ![c].pc = "sa_wait", ![c].joinee = animation_thread]
    /\ UNCHANGED <<fileVars, animVars, running, pidFile, last_mtime, retryOwed, unread>>

SA_JoinReturn(c) ==
    /\ CanRun(c)
    /\ proc[c].pc = "sa_wait"
    /\ ~DAlive(proc[c].joinee)
    /\ proc' = [proc EXCEPT ![c].pc = "sa_clear", ![c].joinee = 0]
    /\ UNCHANGED <<fileVars, animVars, running, pidFile, last_mtime, retryOwed, unread>>

SA_JoinTimedOut(c) ==
    /\ CanRun(c)
    /\ proc[c].pc = "sa_wait"
    /\ JoinCanTimeOut(proc[c].joinee)
    /\ proc' = [proc EXCEPT ![c].pc = "sa_clear", ![c].joinee = 0]
    /\ UNCHANGED <<fileVars, animVars, running, pidFile, last_mtime, retryOwed, unread>>

\* self.animation_thread = None; self.current_animation = None
SA_Clear(c) ==
    /\ CanRun(c)
    /\ proc[c].pc = "sa_clear"
    /\ animation_thread' = 0
    /\ proc' = [proc EXCEPT ![c] =
                 IF proc[c].ret = "st_style" THEN [proc[c] EXCEPT !.pc = "st_style"]
                 ELSE PAt(proc[c].ret)]
    /\ UNCHANGED <<fileVars, d_stop_event, dwk, dspawn, running, pidFile,
                   last_mtime, retryOwed, unread>>

(* ---- DaemonState.start_animation after its stop_animation() ---- *)
\* static: disable_autonomous, set_color, return (the flag is left as it is)
ST_Style(c) ==
    /\ CanRun(c)
    /\ proc[c].pc = "st_style"
    /\ proc' = [proc EXCEPT ![c] =
                 IF proc[c].args.style = "static" THEN Finish(c)
                 ELSE [proc[c] EXCEPT !.pc = "st_clear"]]
    /\ UNCHANGED <<fileVars, animVars, running, pidFile, last_mtime, retryOwed, unread>>

\* self.stop_event.clear()
ST_Clear(c) ==
    /\ CanRun(c)
    /\ proc[c].pc = "st_clear"
    /\ d_stop_event' = FALSE
    /\ proc' = [proc EXCEPT ![c].pc = "st_spawn"]
    /\ UNCHANGED <<fileVars, animation_thread, dwk, dspawn, running, pidFile,
                   last_mtime, retryOwed, unread>>

\* the new worker thread, or the warning for an unknown style
ST_Spawn(c) ==
    /\ CanRun(c)
    /\ proc[c].pc = "st_spawn"
    /\ proc' = [proc EXCEPT ![c] = Finish(c)]
    /\ IF proc[c].args.style \in DaemonAnims
       THEN /\ dspawn < MaxWorkers
            /\ dspawn' = dspawn + 1
            /\ animation_thread' = dspawn + 1
            /\ dwk' = [dwk EXCEPT ![dspawn + 1] =
                        [style |-> proc[c].args.style,
                         interval |-> proc[c].args.interval, pc |-> "init"]]
       ELSE UNCHANGED <<animation_thread, dwk, dspawn>>
    /\ UNCHANGED <<fileVars, d_stop_event, running, pidFile, last_mtime, retryOwed, unread>>

(* ---- the daemon's worker threads: breathing and rainbow ---- *)
DW_Init(w) ==
    /\ dwk[w].pc = "init"
    /\ dwk' = [dwk EXCEPT ![w] = IF devicePresent THEN [dwk[w] EXCEPT !.pc = "loop"]
                                 ELSE DeadWorker("failed")]
    /\ UNCHANGED <<fileVars, d_stop_event, animation_thread, dspawn, proc, running,
                   pidFile, last_mtime, retryOwed, unread>>

DW_Check(w) ==
    /\ dwk[w].pc = "loop"
    /\ dwk' = [dwk EXCEPT ![w] = IF d_stop_event THEN DeadWorker("stopped")
                                 ELSE [dwk[w] EXCEPT !.pc = "on"]]
    /\ UNCHANGED <<fileVars, d_stop_event, animation_thread, dspawn, proc, running,
                   pidFile, last_mtime, retryOwed, unread>>

DW_Write(w) ==
    /\ dwk[w].pc = "on"
    /\ dwk' = [dwk EXCEPT ![w].pc = "sleep_on"]
    /\ UNCHANGED <<fileVars, d_stop_event, animation_thread, dspawn, proc, running,
                   pidFile, last_mtime, retryOwed, unread>>

DW_Wake(w) ==
    /\ dwk[w].pc = "sleep_on"
    /\ dwk' = [dwk EXCEPT ![w].pc = "loop"]
    /\ UNCHANGED <<fileVars, d_stop_event, animation_thread, dspawn, proc, running,
                   pidFile, last_mtime, retryOwed, unread>>

(* ---- DaemonState.watch_state_file: the poller ---- *)
\* while not self.stop_event.is_set()
P_Check ==
    /\ proc["poller"].pc = "p_check"
    /\ proc' = [proc EXCEPT !["poller"].pc = IF d_stop_event THEN "exited" ELSE "p_stat"]
    /\ UNCHANGED <<fileVars, animVars, running, pidFile, last_mtime, retryOwed, unread>>

\* exists(), st_mtime, the comparison with last_mtime
P_Stat ==
    /\ proc["poller"].pc = "p_stat"
    /\ IF sf.exists /\ sf.mtime > last_mtime
       THEN /\ last_mtime' = sf.mtime
            /\ proc' = [proc EXCEPT !["poller"].pc = "p_load"]
       ELSE /\ proc' = [proc EXCEPT !["poller"].pc = "p_sleep"]
            /\ UNCHANGED last_mtime
    /\ UNCHANGED <<fileVars, animVars, running, pidFile, retryOwed, unread>>

\* state = self.load_state(); if state: self.apply_state(state)
P_LoadApplyDefaults ==
    /\ proc["poller"].pc = "p_load"
    /\ retryOwed' = ~LoadOk
    /\ unread' = (unread /\ ~LoadOk)
    /\ EnterStart("poller", IF LoadOk THEN ApplyArgs(sf.obj) ELSE NoArgs)
    /\ UNCHANGED <<fileVars, animVars, running, pidFile, last_mtime>>

P_Load ==
    /\ proc["poller"].pc = "p_load"
    /\ IF LoadOk
       THEN /\ retryOwed' = FALSE
            /\ unread' = FALSE
            /\ EnterStart("poller", ApplyArgs(sf.obj))
       ELSE /\ retryOwed' = TRUE
            /\ proc' = [proc EXCEPT !["poller"].pc = "p_sleep"]
            /\ UNCHANGED unread
    /\ UNCHANGED <<fileVars, animVars, running, pidFile, last_mtime>>

\* time.sleep(1)
P_Wake ==
    /\ proc["poller"].pc = "p_sleep"
    /\ proc' = [proc EXCEPT !["poller"].pc = "p_check"]
    /\ UNCHANGED <<fileVars, animVars, running, pidFile, last_mtime, retryOwed, unread>>

(* ---- RGBDaemon.run and signal_handler ---- *)
M_WritePid ==
    /\ proc["main"].pc = "m_init"
    /\ pidFile' = TRUE
    /\ proc' = [proc EXCEPT !["main"].pc = "m_load"]
    /\ UNCHANGED <<fileVars, animVars, running, last_mtime, retryOwed, unread>>

\* state = load_state(); if state: apply_state(state)
M_Load ==
    /\ CanRun("main")
    /\ proc["main"].pc = "m_load"
    /\ IF LoadOk
       THEN EnterStart("main", ApplyArgs(sf.obj))
       ELSE proc' = [proc EXCEPT !["main"].pc = "m_watch"]
    /\ UNCHANGED <<fileVars, animVars, running, pidFile, last_mtime, retryOwed, unread>>

\* watch_thread.start()
M_StartWatch ==
    /\ CanRun("main")
    /\ proc["main"].pc = "m_watch"
    /\ proc' = [proc EXCEPT !["main"].pc = "m_loop", !["poller"].pc = "p_check"]
    /\ UNCHANGED <<fileVars, animVars, running, pidFile, last_mtime, retryOwed, unread>>

\* while self.running: time.sleep(1) ends; stop_animation() is called
M_LoopExit ==
    /\ CanRun("main")
    /\ proc["main"].pc = "m_loop"
    /\ ~running
    /\ proc' = [proc EXCEPT !["main"] =
                 [pc |-> "sa_begin", args |-> NoArgs, joinee |-> 0, ret |-> "m_join_watch"]]
    /\ UNCHANGED <<fileVars, animVars, running, pidFile, last_mtime, retryOwed, unread>>

\* watch_thread.join(timeout=2) returns because the poller ended
M_JoinWatch ==
    /\ CanRun("main")
    /\ proc["main"].pc = "m_join_watch"
    /\ proc["poller"].pc = "exited"
    /\ proc' = [proc EXCEPT !["main"].pc = "m_finally"]
    /\ UNCHANGED <<fileVars, animVars, running, pidFile, last_mtime, retryOwed, unread>>

\* ... or because the two seconds ran out: the poller is in a join of its own
\* or the flag is clear again and its loop goes on
M_JoinWatchTimeout ==
    /\ CanRun("main")
    /\ proc["main"].pc = "m_join_watch"
    /\ proc["poller"].pc # "exited"
    /\ ~d_stop_event \/ proc["poller"].pc = "sa_wait"
    /\ proc' = [proc EXCEPT !["main"].pc = "m_finally"]
    /\ UNCHANGED <<fileVars, animVars, running, pidFile, last_mtime, retryOwed, unread>>

\* finally: self.remove_pid()
M_Finally ==
    /\ CanRun("main")
    /\ proc["main"].pc = "m_finally"
    /\ pidFile' = FALSE
    /\ proc' = [proc EXCEPT !["main"].pc = "m_exited"]
    /\ UNCHANGED <<fileVars, animVars, running, last_mtime, retryOwed, unread>>

\* SIGTERM or SIGINT arrives: self.running = False
SigDeliver ==
    /\ proc["sig"].pc = "idle"
    /\ proc["main"].pc \notin {"m_init", "m_exited"}
    /\ running' = FALSE
    /\ proc' = [proc EXCEPT !["sig"].pc = "h_set"]
    /\ UNCHANGED <<fileVars, animVars, pidFile, last_mtime, retryOwed, unread>>

\* self.state_manager.stop_event.set(), then stop_animation()
H_Set ==
    /\ proc["sig"].pc = "h_set"
    /\ d_stop_event' = TRUE
    /\ proc' = [proc EXCEPT !["sig"] =
                 [pc |-> "sa_begin", args |-> NoArgs, joinee |-> 0, ret |-> "done"]]
    /\ UNCHANGED <<fileVars, animation_thread, dwk, dspawn, running, pidFile,
                   last_mtime, retryOwed, unread>>

InitDaemon ==
    /\ now = 1
    /\ sf \in {NoFile} \cup
              {[exists |-> TRUE, complete |-> TRUE, obj |-> r, mtime |-> 1] : r \in Records}
    /\ d_stop_event = FALSE
    /\ animation_thread = 0
    /\ dwk = [w \in DWorkerIds |-> DeadWorker("unborn")]
    /\ dspawn = 0
    /\ proc = [c \in Callers |->
                 IF c = "main" THEN PAt("m_init")
                 ELSE IF c = "sig" THEN PAt("idle") ELSE PAt("unborn")]
    /\ running = TRUE
    /\ pidFile = FALSE
    /\ last_mtime = 0
    /\ retryOwed = FALSE
    /\ unread = sf.exists

\* the daemon part of the state while another component is under study
DaemonIdle ==
    /\ InitDaemon
    /\ sf = NoFile

\* the engine part of the state while another component is under study
EngineIdle ==
    /\ thread = 0
    /\ stop_event = FALSE
    /\ wk = [w \in WorkerIds |-> Ended("unborn")]
    /\ nspawn = 0
    /\ ctl = IdleCtl
    /\ orphaned = {}
    /\ stopReq = {}
    /\ wrote = {}
    /\ checkedAfterStop = {}

MainStep ==
    \/ M_WritePid \/ M_Load \/ M_StartWatch \/ M_LoopExit \/ M_JoinWatch
    \/ M_JoinWatchTimeout \/ M_Finally
    \/ SA_Begin("main") \/ SA_JoinCall("main") \/ SA_JoinReturn("main")
    \/ SA_JoinTimedOut("main") \/ SA_Clear("main")
    \/ ST_Style("main") \/ ST_Clear("main") \/ ST_Spawn("main")

SigStep ==
    \/ H_Set
    \/ SA_Begin("sig") \/ SA_JoinCall("sig") \/ SA_JoinReturn("sig")
    \/ SA_JoinTimedOut("sig") \/ SA_Clear("sig")

PollerStep ==
    \/ P_Check \/ P_Stat \/ P_Load \/ P_Wake
    \/ SA_Begin("poller") \/ SA_JoinCall("poller") \/ SA_JoinReturn("poller")
    \/ SA_JoinTimedOut("poller") \/ SA_Clear("poller")
    \/ ST_Style("poller") \/ ST_Clear("poller") \/ ST_Spawn("poller")

DWorkerStep(w) ==
    DW_Init(w) \/ DW_Check(w) \/ DW_Write(w) \/ DW_Wake(w)

(***************************************************************************)
(* LiveSender (archive/OldCode/archive/kbdrgb_gui.py): the coalescing      *)
(* sender behind the colour wheel and the brightness slider.  The variable *)
(* live is the LiveSender object and what has been observed of it:         *)
(*   pending, last : _pending and _last                                    *)
(*   dev           : the tuple the keyboard shows                          *)
(*   sent          : the tuple of the latest set_color call                *)
(*   writes        : the reports of the latest tick                        *)
(*   burst         : queue() calls since the latest tick                   *)
(*   coalesced     : queue() calls the latest tick looked back on          *)
(*   tick          : parity of the number of ticks                         *)
(*   upsets        : unplugs and failed reports so far                     *)
(***************************************************************************)
MaxVal == 2              \* distinct (r, g, b, i) tuples the user can queue
MaxBurst == 2            \* queue() calls counted between two ticks
MaxUpsets == 1           \* unplugs and failed reports the environment causes

\* a queued tuple (int(r), int(g), int(b), int(i)) is named by its number;
\* NoValue is None in _pending and (None, None, None, None) in _last
NoValue == 0
LiveValues == 1..MaxVal

\* one send_feature_report call and what it returned
Report(op, v, ok) == [op |-> op, val |-> v, ok |-> ok]

\* the two reports of a tick that passed the os.path.exists test
TickReports(v, okD, okS) == <<Report("disable", NoValue, okD), Report("set", v, okS)>>

\* a tick that writes whenever something was queued, equal to _last or not
FlushWantedAlways == live.pending # NoValue

\* _flush decides to write: a pending tuple that differs from _last
FlushWanted == live.pending # NoValue /\ live.pending # live.last

\* LiveSender.queue(r, g, b, i): overwrite _pending
LS_Queue(v) ==
    /\ live' = [live EXCEPT !.pending = v,
                            !.burst = IF @ < MaxBurst THEN @ + 1 ELSE @]
    /\ UNCHANGED devicePresent

\* LiveSender._flush, one timer tick
LS_Flush ==
    /\ LET ticked == [live EXCEPT !.tick = 1 - @, !.coalesced = live.burst, !.burst = 0]
       IN  IF FlushWanted /\ devicePresent
           THEN \E okD, okS \in BOOLEAN :
                  /\ (~okD \/ ~okS) => live.upsets < MaxUpsets
                  /\ live' = [ticked EXCEPT
                                !.upsets = IF okD /\ okS THEN @ ELSE @ + 1,
                                !.writes = TickReports(live.pending, okD, okS),
                                !.dev = IF okS THEN live.pending ELSE @,
                                !.sent = live.pending,
                                !.last = live.pending]
           ELSE live' = [ticked EXCEPT !.writes = <<>>]
    /\ UNCHANGED devicePresent

\* the keyboard's hidraw node disappears
LS_Unplug ==
    /\ devicePresent
    /\ live.upsets < MaxUpsets
    /\ devicePresent' = FALSE
    /\ live' = [live EXCEPT !.upsets = @ + 1]

\* the node comes back
LS_Replug ==
    /\ ~devicePresent
    /\ devicePresent' = TRUE
    /\ UNCHANGED live

\* LiveSender.__init__
InitLiveSender ==
    live = [pending |-> NoValue, last |-> NoValue, dev |-> NoValue, sent |-> NoValue,
            writes |-> <<>>, burst |-> 0, coalesced |-> 0, tick |-> 0, upsets |-> 0]

\* no LiveSender exists in the program under study
LiveIdle == live = "none"

(***************************************************************************)
(* kbdrgb.py: send_feature_report / set_color, breathing, and the          *)
(* AnimationController with the window callbacks that call it.  The        *)
(* variable app is the controller and its surroundings:                    *)
(*   thread, stop_event, style, params : the controller's attributes       *)
(*   wk      : the breathing threads ever spawned                          *)
(*   nspawn  : how many were spawned                                       *)
(*   call    : the stop()/start() call in progress on the GUI thread       *)
(*   log     : the reports the GUI thread issued during the latest call    *)
(***************************************************************************)
K_JOIN_TIMEOUT == 10     \* self.thread.join(timeout=1.0)

KStyles == {"Static", "Breathing", "Rainbow"}
KColors == {<<255, 0, 0>>, <<0, 0, 255>>}
KIntensities == {128, 255}
KIntervals == {5, 3600}  \* 0.5 s, and 360 s read from the settings file

KWorkerIds == 1..MaxWorkers

\* str.lower()
Lower(s) ==
    CASE s = "Static" -> "static"
      [] s = "Breathing" -> "breathing"
      [] s = "Rainbow" -> "rainbow"
      [] OTHER -> s

\* the list set_color hands to send_feature_report
KSetColorData(r, g, b, i) == <<1, 0, 0, 100, 0, r, g, b, i>>

\* the report bytes of disable_autonomous
KDisableData == <<0>>

\* time.sleep(max(0.0, target - time.monotonic())): one step of 180 per cycle
StepSleep(ivl) == ivl \div 180

KIdleCall == [pc |-> "idle", op |-> "stop", style |-> "Static", color |-> <<255, 0, 0>>,
              interval |-> 5, intensity |-> 255, idle |-> TRUE, then |-> "none"]

KUnborn == [pc |-> "unborn", interval |-> 5]
KDone == [pc |-> "done", interval |-> 5]

KAlive(w) == app.wk[w].pc \notin {"unborn", "done"}

\* no breathing thread is running
KNoWorker == \A w \in KWorkerIds : ~KAlive(w)

\* self.thread and self.thread.is_alive()
KHandleAlive == app.thread # 0 /\ KAlive(app.thread)

\* send_feature_report from the GUI thread: a report reaches the device only
\* if the path exists
KIssue(log, op, data) ==
    IF devicePresent
    THEN Append(log, [op |-> op, data |-> data, beside |-> ~KNoWorker])
    ELSE log

\* a window callback or the command line calls AnimationController.start
K_CallStart(s, c, ivl, i) ==
    /\ app.call.pc = "idle"
    /\ Lower(s) = "breathing" => app.nspawn < MaxWorkers
    /\ app' = [app EXCEPT
                 !.call = [pc |-> "stop", op |-> "start", style |-> s, color |-> c,
                           interval |-> ivl, intensity |-> i, idle |-> KNoWorker,
                           then |-> "none"],
                 !.log = <<>>]
    /\ UNCHANGED devicePresent

\* closeEvent (then "none"), stop_and_off ("off"), save_and_exit ("save")
K_CallStop(then) ==
    /\ app.call.pc = "idle"
    /\ app' = [app EXCEPT
                 !.call = [KIdleCall EXCEPT !.pc = "stop", !.then = then,
                                            !.idle = KNoWorker,
                                            !.color = app.params.color,
                                            !.intensity = app.params.intensity],
                 !.log = <<>>]
    /\ UNCHANGED devicePresent

\* stop(): if self.thread and self.thread.is_alive(): set the flag and join
K_StopBegin ==
    /\ app.call.pc = "stop"
    /\ app' = IF KHandleAlive
              THEN [app EXCEPT !.stop_event = TRUE, !.call.pc = "join"]
              ELSE [app EXCEPT !.call.pc = "stop_tail"]
    /\ UNCHANGED devicePresent

\* join(timeout=1.0) returns because the worker ended
K_JoinReturn ==
    /\ app.call.pc = "join"
    /\ ~KAlive(app.thread)
    /\ app' = [app EXCEPT !.call.pc = "stop_tail"]
    /\ UNCHANGED devicePresent

\* join(timeout=1.0) returns with the worker still in a sleep longer than it
K_JoinTimedOut ==
    /\ app.call.pc = "join"
    /\ app.wk[app.thread].pc = "sleep"
    /\ StepSleep(app.wk[app.thread].interval) > K_JOIN_TIMEOUT
    /\ app' = [app EXCEPT !.call.pc = "stop_tail"]
    /\ UNCHANGED devicePresent

\* stop(), last line: self.current_style = "Static"; disable_autonomous(...);
\* then the caller's own set_color, if it has one
K_StopTail ==
    /\ app.call.pc = "stop_tail"
    /\ app' = [app EXCEPT
                 !.style = "Static",
                 !.log =
                    LET l1 == KIssue(app.log, "disable", KDisableData) IN
                    CASE app.call.then = "off" ->
                           KIssue(l1, "set", KSetColorData(0, 0, 0, 0))
                      [] app.call.then = "save" ->
                           KIssue(l1, "set",
                                  KSetColorData(app.call.color[1], app.call.color[2],
                                                app.call.color[3], app.call.intensity))
                      [] OTHER -> l1,
                 !.call.pc = IF app.call.op = "start" THEN "start_body" ELSE "idle"]
    /\ UNCHANGED devicePresent

\* start() after self.stop(): clear the flag, record style and parameters,
\* then write (static, or a style that is not implemented) or spawn
K_StartBody ==
    /\ app.call.pc = "start_body"
    /\ LET recorded ==
             [app EXCEPT !.stop_event = FALSE,
                         !.style = app.call.style,
                         !.params = [color |-> app.call.color,
                                     interval |-> app.call.interval,
                                     intensity |-> app.call.intensity],
                         !.call.pc = "idle"]
       IN  app' = IF Lower(app.call.style) = "breathing"
                  THEN [recorded EXCEPT
                          !.nspawn = @ + 1,
                          !.thread = app.nspawn + 1,
                          !.wk[app.nspawn + 1] = [pc |-> "init", interval |-> 5]]
                  ELSE [recorded EXCEPT
                          !.log = KIssue(app.log, "set",
                                         KSetColorData(app.call.color[1],
                                                       app.call.color[2],
                                                       app.call.color[3],
                                                       app.call.intensity))]
    /\ UNCHANGED devicePresent

\* live_update_color / live_update_intensity
K_LiveUpdate(c, i) ==
    /\ app.call.pc = "idle"
    /\ app' = IF Lower(app.style) = "static"
              THEN [app EXCEPT
                      !.log = KIssue(<<>>, "set", KSetColorData(c[1], c[2], c[3], i)),
                      !.call = [KIdleCall EXCEPT !.op = "live", !.idle = KNoWorker]]
              ELSE [app EXCEPT !.params.color = c, !.params.intensity = i]
    /\ UNCHANGED devicePresent

(* ---- breathing(dev_path, param_provider, stop_event) ---- *)
\* disable_autonomous(dev_path): its result is not looked at
KW_Init(w) ==
    /\ app.wk[w].pc = "init"
    /\ app' = [app EXCEPT !.wk[w].pc = "outer"]
    /\ UNCHANGED devicePresent

\* while not stop_event.is_set(): color, interval, intensity = param_provider()
KW_Outer(w) ==
    /\ app.wk[w].pc = "outer"
    /\ app' = [app EXCEPT !.wk[w] = IF app.stop_event THEN KDone
                                    ELSE [pc |-> "inner",
                                          interval |-> app.params.interval]]
    /\ UNCHANGED devicePresent

\* for k in range(180): break on the flag or on a new interval, else write
KW_Inner(w) ==
    /\ app.wk[w].pc = "inner"
    /\ app' = [app EXCEPT !.wk[w] =
                 IF app.stop_event THEN [@ EXCEPT !.pc = "outer"]
                 ELSE IF app.params.interval # @.interval
                      THEN [pc |-> "outer", interval |-> app.params.interval]
                      ELSE [@ EXCEPT !.pc = "sleep"]]
    /\ UNCHANGED devicePresent

\* time.sleep(...) ends; the next k, or the end of range(180)
KW_Wake(w) ==
    /\ app.wk[w].pc = "sleep"
    /\ \E last \in BOOLEAN :
         app' = [app EXCEPT !.wk[w].pc = IF last THEN "outer" ELSE "inner"]
    /\ UNCHANGED devicePresent

K_DeviceToggle ==
    /\ devicePresent' = ~devicePresent
    /\ UNCHANGED app

\* AnimationController.__init__
InitApp ==
    app = [thread |-> 0, stop_event |-> FALSE, style |-> "Static",
           params |-> [color |-> <<255, 0, 0>>, interval |-> 5, intensity |-> 255],
           wk |-> [w \in KWorkerIds |-> KUnborn], nspawn |-> 0, call |-> KIdleCall,
           log |-> <<>>]

\* kbdrgb.py is not the program under study
AppIdle == app = "none"

(***************************************************************************)
(* archive/kbdrgb.py: set_color, and the window callbacks around the       *)
(* AnimationController.  The variable win is the MainWindow:               *)
(*   color, intensity : the wheel's colour and the slider's value          *)
(*   req     : the callback that ran last                                  *)
(*   log     : the reports the GUI thread issued during that callback      *)
(*   stopped : the threads a returned stop() was meant for                 *)
(*   post    : per thread, its writes after that stop() returned           *)
(***************************************************************************)
DEFAULT_LED_START == 0
DEFAULT_LED_END == 100
MAX_INTENSITY == 255

Min(a, b) == IF a < b THEN a ELSE b

\* max(0, min(top, int(x)))
Clamp(x, top) == Max(0, Min(top, x))

\* a payload with the two bytes of each id in the other order
SetColorPayloadBigEndian(r, g, b, i, start_id, end_id) ==
    <<1, (start_id \div 256) % 256, start_id % 256, (end_id \div 256) % 256, end_id % 256,
      Clamp(r, 255), Clamp(g, 255), Clamp(b, 255), Clamp(i, MAX_INTENSITY)>>

\* the payload list of archive set_color(dev_path, r, g, b, i, start_id, end_id)
SetColorPayload(r, g, b, i, start_id, end_id) ==
    <<1, start_id % 256, (start_id \div 256) % 256, end_id % 256, (end_id \div 256) % 256,
      Clamp(r, 255), Clamp(g, 255), Clamp(b, 255), Clamp(i, MAX_INTENSITY)>>

\* disable_autonomous(path); set_color(path, r, g, b, i) from the GUI thread:
\* each report reaches the device only if the path exists
LiveReports(c, i, beside) ==
    IF devicePresent
    THEN <<[op |-> "disable", data |-> <<0>>, beside |-> beside],
           [op |-> "set", beside |-> beside,
            data |-> SetColorPayload(c[1], c[2], c[3], i, DEFAULT_LED_START, DEFAULT_LED_END)]>>
    ELSE <<>>

\* the callback that runs, and whether it found the engine without a worker
WRequest(op) == [op |-> op, idle |-> AliveWorkers = {}]

\* apply_lighting / apply_lighting_temp / on_style_changed
W_ApplyLighting(s, ivl) ==
    /\ devicePresent
    /\ CallStart(s, ivl)
    /\ win' = [win EXCEPT !.req = WRequest("apply"), !.log = <<>>]

\* stop_animation: self.animator.stop(), then the reset to white
W_StopAnimation ==
    /\ CallStop
    /\ win' = [win EXCEPT
                 !.req = WRequest("stop"),
                 !.color = <<255, 255, 255>>,
                 !.intensity = 255,
                 !.log = IF ctl'.pc = "idle"
                         THEN LiveReports(<<255, 255, 255>>, 255, AliveWorkers # {})
                         ELSE <<>>]

\* what the callback does once its stop() has returned
AfterJoinReports ==
    IF win.req.op = "stop" THEN LiveReports(<<255, 255, 255>>, 255, AliveWorkers # {})
    ELSE win.log

W_JoinReturn ==
    /\ JoinReturn
    /\ win' = [win EXCEPT !.stopped = @ \cup {thread}, !.log = AfterJoinReports]

W_JoinTimedOut ==
    /\ JoinTimedOut
    /\ win' = [win EXCEPT !.stopped = @ \cup {thread}, !.log = AfterJoinReports]

W_StartClear ==
    /\ StartClear
    /\ UNCHANGED win

\* the rest of start(): the static branch writes base_color at intensity 255;
\* after a restart that on_wheel_changed asked for, send_live_color runs
W_StartDispatch ==
    /\ StartDispatch
    /\ win' = [win EXCEPT !.log =
         (IF devicePresent /\ ctl.style = "static"
          THEN <<[op |-> "disable", data |-> <<0>>, beside |-> AliveWorkers # {}],
                 [op |-> "set", beside |-> AliveWorkers # {},
                  data |-> SetColorPayload(win.color[1], win.color[2], win.color[3], 255,
                                           DEFAULT_LED_START, DEFAULT_LED_END)]>>
          ELSE <<>>)
         \o (IF win.req.op = "wheel"
             THEN LiveReports(win.color, win.intensity,
                              AliveWorkers # {} \/ (devicePresent /\ ctl.style \in AnimStyles))
             ELSE <<>>)]

\* colorChanged: on_wheel_changed (restart a running animation with the new
\* colour), then send_live_color
W_WheelChanged(c) ==
    /\ ctl.pc = "idle"
    /\ IF thread # 0 /\ Alive(thread)
       THEN /\ devicePresent
            /\ nspawn < MaxWorkers
            /\ StopBegin("start", wk[thread].style, wk[thread].interval)
            /\ win' = [win EXCEPT !.color = c, !.req = WRequest("wheel"), !.log = <<>>]
       ELSE /\ win' = [win EXCEPT !.color = c, !.req = WRequest("wheel"),
                                  !.log = LiveReports(c, win.intensity, AliveWorkers # {})]
            /\ UNCHANGED <<engVars, devicePresent>>

\* valueChanged: on_value_changed writes the colour at the new intensity
W_ValueChanged(i) ==
    /\ ctl.pc = "idle"
    /\ win' = [win EXCEPT !.intensity = i, !.req = WRequest("value"),
                          !.log = LiveReports(win.color, i, AliveWorkers # {})]
    /\ UNCHANGED <<engVars, devicePresent>>

W_WorkerInit(w) ==
    /\ WorkerInit(w)
    /\ UNCHANGED win

W_WorkerCheck(w) ==
    /\ WorkerCheck(w)
    /\ UNCHANGED win

\* a set_color of worker w; those of a flash worker after the stop() that was
\* meant for it has returned are counted
W_WorkerWrite(w) ==
    /\ WorkerWrite(w)
    /\ win' = IF devicePresent /\ w \in win.stopped /\ wk[w].style = "flash"
              THEN [win EXCEPT !.post[w] = Min(2, @ + 1)]
              ELSE win

W_WorkerWake(w) ==
    /\ WorkerWake(w)
    /\ UNCHANGED win

W_DeviceToggle ==
    /\ DeviceToggle
    /\ UNCHANGED win

\* MainWindow.__init__: colour, intensity; nothing requested yet
InitWindow ==
    win = [color |-> <<255, 0, 0>>, intensity |-> 255,
           req |-> [op |-> "none", idle |-> TRUE], log |-> <<>>, stopped |-> {},
           post |-> [w \in WorkerIds |-> 0]]

\* the engine runs without the window's callbacks
WindowIdle == win = "none"

(***************************************************************************)
(* archive/kbdrgb_integrated.py: IntegratedRGBController's callbacks.  The *)
(* variable ui is the controller window:                                   *)
(*   use_daemon, color, intensity : its attributes                         *)
(*   file  : the daemon's state file                                       *)
(*   op    : the callback that ran last and the mode it ran in             *)
(*   log   : the device reports that callback issued                       *)
(*   wrote : that callback's write_daemon_state succeeded                  *)
(***************************************************************************)
\* PRESETS: name -> (r, g, b, i)
PRESETS == [Red |-> <<255, 0, 0, 255>>, Orange |-> <<255, 128, 0, 255>>, Off |-> <<0, 0, 0, 0>>]

PresetNames == DOMAIN PRESETS

UColors == {<<255, 0, 0>>, <<0, 0, 255>>}
UIntensities == {128, 255}
USliderSpeeds == {10, 300}             \* self.speed_slider.value()
UStyles == {"Static", "Breathing"}     \* self.style_combo.currentText()

\* the file before write_daemon_state was ever called
NoStateFile == <<>>

\* the dict write_daemon_state dumps; interval in hundredths of a second
StateRecord(style, color, intensity, interval) ==
    [style |-> style, color |-> color, intensity |-> intensity, interval |-> interval,
     device_path |-> DEFAULT_DEVICE_PATH]

\* "not self.use_daemon and self.device_available": the callback writes to
\* the device itself
DirectWriteAlways == devicePresent

DirectWrite == ~ui.use_daemon /\ devicePresent

\* disable_autonomous(path); set_color(path, r, g, b, i)
DirectReports(c, i) ==
    <<[op |-> "disable", data |-> <<0>>],
      [op |-> "set",
       data |-> SetColorPayload(c[1], c[2], c[3], i, DEFAULT_LED_START, DEFAULT_LED_END)]>>

\* the latest callback and the mode it ran in
UOp(op) == [op |-> op, daemon |-> ui.use_daemon]

\* write_daemon_state(...) from a callback: the file is replaced unless the
\* write fails
UWritten(u, rec, ok) ==
    [u EXCEPT !.file = IF ok THEN <<rec>> ELSE @, !.wrote = ok]

\* on_daemon_mode_changed(state)
U_DaemonModeChanged(b) ==
    /\ ui' = [ui EXCEPT !.use_daemon = b, !.op = [op |-> "mode", daemon |-> b],
                        !.log = <<>>]
    /\ UNCHANGED devicePresent

\* pick_color with a valid colour from the dialog
U_PickColor(c) ==
    /\ ui' = [ui EXCEPT
                !.color = c,
                !.op = UOp("pick_color"),
                !.log = IF DirectWrite THEN DirectReports(c, ui.intensity) ELSE <<>>,
                !.wrote = FALSE]
    /\ UNCHANGED devicePresent

\* on_brightness_changed(value)
U_BrightnessChanged(v) ==
    /\ ui' = [ui EXCEPT
                !.intensity = v,
                !.op = UOp("brightness"),
                !.log = IF DirectWrite THEN DirectReports(ui.color, v) ELSE <<>>,
                !.wrote = FALSE]
    /\ UNCHANGED devicePresent

\* apply_preset(name); brightness_slider.setValue(i) runs on_brightness_changed
\* when the value changes
U_ApplyPreset(name) ==
    LET c == SubSeq(PRESETS[name], 1, 3)
        i == PRESETS[name][4]
        shown == [ui EXCEPT
                    !.color = c,
                    !.intensity = i,
                    !.op = UOp("preset"),
                    !.log = (IF i # ui.intensity /\ DirectWrite
                             THEN DirectReports(c, i) ELSE <<>>)
                            \o (IF ~ui.use_daemon /\ devicePresent
                                THEN DirectReports(c, i) ELSE <<>>),
                    !.wrote = FALSE]
    IN /\ IF ui.use_daemon
          THEN \E ok \in BOOLEAN : ui' = UWritten(shown, StateRecord("static", c, i, 10), ok)
          ELSE ui' = shown
       /\ UNCHANGED devicePresent

\* apply_lighting
U_ApplyLighting(style, speed) ==
    /\ LET asked == [ui EXCEPT !.op = UOp("apply"), !.log = <<>>, !.wrote = FALSE]
       IN  IF ~devicePresent
           THEN ui' = asked
           ELSE IF ui.use_daemon
                THEN \E ok \in BOOLEAN :
                       ui' = UWritten(asked,
                                      StateRecord(style, ui.color, ui.intensity, speed), ok)
                ELSE ui' = [asked EXCEPT
                              !.log = IF Lower(style) = "static"
                                      THEN DirectReports(ui.color, ui.intensity)
                                      ELSE <<>>]
    /\ UNCHANGED devicePresent

\* stop_animation
U_StopAnimation ==
    /\ LET asked == [ui EXCEPT !.op = UOp("stop"), !.log = <<>>, !.wrote = FALSE]
       IN  IF ui.use_daemon
           THEN \E ok \in BOOLEAN :
                  ui' = UWritten(asked, StateRecord("static", <<0, 0, 0>>, 0, 10), ok)
           ELSE ui' = [asked EXCEPT
                         !.log = IF devicePresent THEN DirectReports(<<0, 0, 0>>, 0)
                                 ELSE <<>>]
    /\ UNCHANGED devicePresent

U_DeviceToggle ==
    /\ devicePresent' = ~devicePresent
    /\ UNCHANGED ui

\* IntegratedRGBController.__init__: use_daemon defaults to True
InitIntegrated ==
    ui = [use_daemon |-> TRUE, color |-> <<255, 0, 0>>, intensity |-> 255,
          file |-> NoStateFile, op |-> [op |-> "none", daemon |-> TRUE], log |-> <<>>,
          wrote |-> FALSE]

\* the integrated window is not the program under study
IntegratedIdle == ui = "none"

(***************************************************************************)
(* breathing(): archive/kbdrgb.py, archive/kbdrgb_daemon.py and kbdrgb.py. *)
(* The variable br is one breathing thread:                                *)
(*   impl  : the program it belongs to                                     *)
(*   pc, k : where it stands, and the step of the cycle                    *)
(*   stop  : stop_event.is_set()                                           *)
(*   fails : set_color calls that failed so far                            *)
(***************************************************************************)
MaxSteps == 3            \* steps of one cycle (updates_per_cycle, steps, 180)

BreathingImpls == {"archive", "daemon", "kbdrgb"}

\* the thread has returned from breathing()
BReturned == {"init_failed", "stopped", "write_failed"}

\* a report succeeds only on an existing path, and the ioctl may still fail
ReportOutcomes == {ok \in BOOLEAN : ok => devicePresent}

\* disable_autonomous(dev_path): archive and daemon return on failure,
\* kbdrgb.py does not look at it
B_Init ==
    /\ br.pc = "init"
    /\ \E ok \in ReportOutcomes :
         br' = [br EXCEPT !.pc = IF ok \/ br.impl = "kbdrgb" THEN "outer"
                                 ELSE "init_failed"]
    /\ UNCHANGED devicePresent

\* while not stop_event.is_set()
B_Outer ==
    /\ br.pc = "outer"
    /\ br' = [br EXCEPT !.pc = IF br.stop THEN "stopped" ELSE "inner", !.k = 0]
    /\ UNCHANGED devicePresent

\* for k in range(...): if stop_event.is_set(): return (kbdrgb.py: break)
B_Inner ==
    /\ br.pc = "inner"
    /\ br' = [br EXCEPT !.pc = IF br.stop
                               THEN (IF br.impl = "kbdrgb" THEN "outer" ELSE "stopped")
                               ELSE "write"]
    /\ UNCHANGED devicePresent

\* set_color(...): archive returns when it fails, the other two go on
B_Write ==
    /\ br.pc = "write"
    /\ \E ok \in ReportOutcomes :
         br' = [br EXCEPT
                  !.fails = IF ok THEN @ ELSE Min(MaxUpsets, @ + 1),
                  !.pc = IF ~ok /\ br.impl = "archive" THEN "write_failed" ELSE "sleep"]
    /\ UNCHANGED devicePresent

\* time.sleep(...) returns: the next k, or the end of the range
B_Wake ==
    /\ br.pc = "sleep"
    /\ br' = IF br.k + 1 < MaxSteps
             THEN [br EXCEPT !.k = @ + 1, !.pc = "inner"]
             ELSE [br EXCEPT !.k = 0, !.pc = "outer"]
    /\ UNCHANGED devicePresent

\* the engine sets the stop flag
B_Stop ==
    /\ ~br.stop
    /\ br' = [br EXCEPT !.stop = TRUE]
    /\ UNCHANGED devicePresent

B_DeviceToggle ==
    /\ devicePresent' = ~devicePresent
    /\ UNCHANGED br

\* a breathing thread of one of the three programs was just started
InitBreathing ==
    \E impl \in BreathingImpls :
      br = [impl |-> impl, pc |-> "init", k |-> 0, stop |-> FALSE, fails |-> 0]

\* no breathing thread of this kind is under study
BreathingIdle == br = "none"

(***************************************************************************)
(* send_feature_report and set_color of kbdrgb.py and of archive/kbdrgb.py *)
(* as functions of their arguments.  The variable col is one call site:    *)
(*   args             : the (r, g, b, i) a caller passes                   *)
(*   start_id, end_id : the LED range a caller passes, or NoId             *)
(*   res              : what the latest call did                           *)
(***************************************************************************)
SET_COLOR == 5           \* HIDReport.SET_COLOR = 0x05

\* values a caller can pass for r, g, b and i: inside, at the edges of and
\* outside 0..255
ChannelInputs == {-1, 0, 255, 256}

\* start_id=None / end_id=None; no caller passes a negative id
NoId == -1

\* LED ids a caller can pass: one byte, two bytes, and beyond 16 bits
IdInputs == {NoId, 0, 255, 256, 65535, 65537}

ColorImpls == {"kbdrgb", "archive"}

\* bytes(data): every element must be in range(0, 256), else ValueError
BytesOk(data) == \A k \in 1..Len(data) : data[k] \in 0..255

NoReport == [raised |-> FALSE, attempts |-> 0, ioctl |-> "none", ret |-> FALSE,
             packet |-> <<>>]

NotCalled == [impl |-> "none", raised |-> FALSE, sent |-> FALSE, data |-> <<>>,
              out |-> NoReport]

\* a send_feature_report that calls the ioctl again after an OSError
SendFeatureReportRetry(report_id, data, ioctlOk) ==
    IF ~devicePresent THEN NoReport
    ELSE IF ~BytesOk(<<report_id>> \o data) THEN [NoReport EXCEPT !.raised = TRUE]
    ELSE [raised |-> FALSE, attempts |-> IF ioctlOk THEN 1 ELSE 2,
          ioctl |-> IF ioctlOk THEN "ok" ELSE "failed", ret |-> ioctlOk,
          packet |-> <<report_id>> \o data]

\* send_feature_report(dev_path, report_id, data): False on a missing path;
\* bytes([report_id]) + bytes(data) before the try; one ioctl, True if it
\* went through and False on OSError
SendFeatureReport(report_id, data, ioctlOk) ==
    IF ~devicePresent THEN NoReport
    ELSE IF ~BytesOk(<<report_id>> \o data) THEN [NoReport EXCEPT !.raised = TRUE]
    ELSE [raised |-> FALSE, attempts |-> 1,
          ioctl |-> IF ioctlOk THEN "ok" ELSE "failed", ret |-> ioctlOk,
          packet |-> <<report_id>> \o data]

\* the outcome of set_color: the list it built and what became of the report
SetColorResult(impl, data, out) ==
    [impl |-> impl, raised |-> out.raised, sent |-> out.attempts > 0, data |-> data,
     out |-> out]

\* kbdrgb.py: set_color builds the list from int(r), int(g), int(b), int(i)
\* as they are and sends it under report id 0x05
KSetColor(a, ioctlOk) ==
    LET data == KSetColorData(a[1], a[2], a[3], a[4])
    IN SetColorResult("kbdrgb", data, SendFeatureReport(SET_COLOR, data, ioctlOk))

\* archive/kbdrgb.py: set_color fills in the default range, clamps, then
\* send_feature_report under HIDReport.SET_COLOR
ASetColor(a, start_id, end_id, ioctlOk) ==
    LET s == IF start_id = NoId THEN DEFAULT_LED_START ELSE start_id
        e == IF end_id = NoId THEN DEFAULT_LED_END ELSE end_id
        data == SetColorPayload(a[1], a[2], a[3], a[4], s, e)
    IN SetColorResult("archive", data, SendFeatureReport(SET_COLOR, data, ioctlOk))

\* a call set_color(path, r, g, b, i) of kbdrgb.py, or a call
\* set_color(path, r, g, b, i, start_id, end_id) of archive/kbdrgb.py
C_SetColor(impl) ==
    /\ impl = "kbdrgb" => (col.start_id = NoId /\ col.end_id = NoId)
    /\ \E ioctlOk \in BOOLEAN :
         col' = [col EXCEPT !.res =
                   IF impl = "kbdrgb" THEN KSetColor(col.args, ioctlOk)
                   ELSE ASetColor(col.args, col.start_id, col.end_id, ioctlOk)]
    /\ UNCHANGED devicePresent

C_DeviceToggle ==
    /\ devicePresent' = ~devicePresent
    /\ col' = [col EXCEPT !.res = NotCalled]

\* arguments chosen, nothing called yet
InitColor ==
    \E a \in ChannelInputs \X ChannelInputs \X ChannelInputs \X ChannelInputs,
       s, e \in IdInputs :
      col = [args |-> a, start_id |-> s, end_id |-> e, res |-> NotCalled]

\* no set_color call site is under study
ColorIdle == col = "none"

(***************************************************************************)
(* QueueHandler.emit and log_queue (kbdrgb.py, archive/kbdrgb.py).  The    *)
(* variable lq is the queue, its handler and the console that drains it:   *)
(*   impl    : the program the handler belongs to                          *)
(*   q       : log_queue, oldest line first; a line is named by its number *)
(*   emitted : the number of the line handed to emit() last                *)
(*   pc      : where an emit() of the archive stands after queue.Full      *)
(*   op      : the call that returned last                                 *)
(*   lost    : the lines the handler threw away                            *)
(***************************************************************************)
MaxLog == 3              \* maxsize of log_queue (1000 and 10000 in the programs)
MaxLines == 6            \* lines logged in one run

LogImpls == {"kbdrgb", "archive"}

\* put_nowait(line): queue.Full leaves the queue as it is
PutNowait(q, line) == IF Len(q) < MaxLog THEN Append(q, line) ELSE q

\* emit(record); Handler.handle holds the handler's lock around it, so one
\* emit runs at a time.  kbdrgb.py: put_nowait, "except queue.Full: pass".
\* archive: on queue.Full go on to get_nowait and a second put_nowait
L_Emit ==
    /\ lq.pc = "idle"
    /\ lq.emitted < MaxLines
    /\ lq' = IF Len(lq.q) < MaxLog \/ lq.impl = "kbdrgb"
             THEN [lq EXCEPT !.q = PutNowait(@, lq.emitted + 1), !.emitted = @ + 1,
                             !.op = "emit",
                             !.lost = IF Len(lq.q) < MaxLog THEN @
                                      ELSE @ \cup {lq.emitted + 1}]
             ELSE [lq EXCEPT !.emitted = @ + 1, !.pc = "evict", !.op = "emitting"]

\* archive: log_queue.get_nowait(), "except queue.Empty: pass"
L_Evict ==
    /\ lq.pc = "evict"
    /\ lq' = [lq EXCEPT !.q = IF @ = <<>> THEN @ ELSE Tail(@),
                         !.lost = IF lq.q = <<>> THEN @ ELSE @ \cup {Head(lq.q)},
                         !.pc = "put_again"]

\* archive: the second put_nowait, "except queue.Full: pass"
L_PutAgain ==
    /\ lq.pc = "put_again"
    /\ lq' = [lq EXCEPT !.q = PutNowait(@, lq.emitted), !.pc = "idle", !.op = "emit",
                         !.lost = IF Len(lq.q) < MaxLog THEN @ ELSE @ \cup {lq.emitted}]

\* the console's timer: one log_queue.get_nowait() of LogConsole.flush
L_Get ==
    /\ lq.q # <<>>
    /\ lq' = [lq EXCEPT !.q = Tail(@), !.op = IF lq.pc = "idle" THEN "get" ELSE @]

\* the module is loaded: an empty queue
InitLog ==
    \E impl \in LogImpls :
      lq = [impl |-> impl, q |-> <<>>, emitted |-> 0, pc |-> "idle", op |-> "none",
            lost |-> {}]

\* no log queue is under study
LogIdle == lq = "none"

(***************************************************************************)
(* breathing of kbdrgb.py with its live parameters.  The variable lu is    *)
(* the controller after start("Breathing", ...) and its one thread:        *)
(*   params     : AnimationController._params                              *)
(*   stop_event : the controller's Event                                   *)
(*   spawned    : threads the controller has started                       *)
(*   gui        : where the GUI thread stands (idle, join, stopped)        *)
(*   w          : the thread: pc, k and its locals r,g,b / interval /      *)
(*                intensity                                                *)
(*   write      : the latest set_color of the thread, <<>> before it       *)
(*   stale      : steps since the latest update_params that used a value   *)
(*                other than the one in _params                            *)
(***************************************************************************)
BREATHING_STEPS == 180   \* for k in range(180)

\* math.cos to six decimals, times 10^6, at 0, 2, 4, ..., 180 degrees
CosTable ==
    <<
      1000000, 999391, 997564, 994522, 990268, 984808, 978148, 970296,
      961262, 951057, 939693, 927184, 913545, 898794, 882948, 866025,
      848048, 829038, 809017, 788011, 766044, 743145, 719340, 694658,
      669131, 642788, 615661, 587785, 559193, 529919, 500000, 469472,
      438371, 406737, 374607, 342020, 309017, 275637, 241922, 207912,
      173648, 139173, 104528, 69756, 34899, 0, -34899, -69756,
      -104528, -139173, -173648, -207912, -241922, -275637, -309017, -342020,
      -374607, -406737, -438371, -469472, -500000, -529919, -559193, -587785,
      -615661, -642788, -669131, -694658, -719340, -743145, -766044, -788011,
      -809017, -829038, -848048, -866025, -882948, -898794, -913545, -927184,
      -939693, -951057, -961262, -970296, -978148, -984808, -990268, -994522,
      -997564, -999391, -1000000
    >>

\* 10^6 * cos(deg degrees) for an even number of degrees
Cos1e6(deg) ==
    LET d == deg % 360
        m == IF d > 180 THEN 360 - d ELSE d
    IN CosTable[(m \div 2) + 1]

\* int(phase * intensity) with phase = (1 - math.cos(k * 2 * math.pi / 180)) / 2
KBreathIntensity(k, intensity) ==
    (((1000000 - Cos1e6(2 * k)) \div 2) * intensity) \div 1000000

\* a breathing that takes r, g, b and intensity once per cycle only
LU_StepOncePerCycle ==
    /\ lu.w.pc = "step"
    /\ lu' = [lu EXCEPT !.w = IF lu.stop_event THEN [@ EXCEPT !.pc = "outer"]
                              ELSE IF lu.params.interval # @.interval
                                   THEN [@ EXCEPT !.interval = lu.params.interval,
                                                  !.pc = "outer"]
                                   ELSE [@ EXCEPT !.pc = "write"]]

\* live_update_color on a running animation: update_params(color=...)
LU_UpdateColor(c) ==
    /\ lu.gui = "idle"
    /\ lu' = [lu EXCEPT !.params.color = c, !.stale = 0]

\* live_update_intensity on a running animation: update_params(intensity=...)
LU_UpdateIntensity(i) ==
    /\ lu.gui = "idle"
    /\ lu' = [lu EXCEPT !.params.intensity = i, !.stale = 0]

\* update_params(interval=...)
LU_UpdateInterval(ivl) ==
    /\ lu.gui = "idle"
    /\ lu' = [lu EXCEPT !.params.interval = ivl, !.stale = 0]

\* stop(): the thread is alive, so set the flag and join(timeout=1.0)
LU_StopBegin ==
    /\ lu.gui = "idle"
    /\ lu.w.pc # "done"
    /\ lu' = [lu EXCEPT !.stop_event = TRUE, !.gui = "join"]

\* the join returns: the thread ended, or it is in a sleep longer than the
\* timeout; stop() goes on to its last line
LU_StopEnd ==
    /\ lu.gui = "join"
    /\ \/ lu.w.pc = "done"
       \/ lu.w.pc = "sleep" /\ StepSleep(lu.w.interval) > K_JOIN_TIMEOUT
    /\ lu' = [lu EXCEPT !.gui = "stopped"]

\* while not stop_event.is_set(): color, interval, intensity =
\* param_provider(); r, g, b = color; t0 = ...; the for loop starts at k = 0
LU_Outer ==
    /\ lu.w.pc = "outer"
    /\ lu' = [lu EXCEPT !.w = IF lu.stop_event THEN [@ EXCEPT !.pc = "done"]
                              ELSE [pc |-> "step", k |-> 0, color |-> lu.params.color,
                                    interval |-> lu.params.interval,
                                    intensity |-> lu.params.intensity]]

\* one pass of the for loop up to the write: break on the flag; read
\* param_provider(); break on a new interval; take a new colour and a new
\* intensity
LU_Step ==
    /\ lu.w.pc = "step"
    /\ lu' = [lu EXCEPT !.w = IF lu.stop_event THEN [@ EXCEPT !.pc = "outer"]
                              ELSE IF lu.params.interval # @.interval
                                   THEN [@ EXCEPT !.interval = lu.params.interval,
                                                  !.pc = "outer"]
                                   ELSE [@ EXCEPT !.color = lu.params.color,
                                                  !.intensity = lu.params.intensity,
                                                  !.pc = "write"]]

\* set_color(dev_path, r, g, b, int(phase * intensity)), then the sleep to
\* t0 + (k + 1) * (interval / 180) begins
LU_Write ==
    /\ lu.w.pc = "write"
    /\ lu' = [lu EXCEPT
                !.write = <<lu.w.color, KBreathIntensity(lu.w.k, lu.w.intensity)>>,
                !.stale = IF lu.w.color = lu.params.color
                             /\ lu.w.intensity = lu.params.intensity
                             /\ lu.w.interval = lu.params.interval
                          THEN @ ELSE Min(2, @ + 1),
                !.w.pc = "sleep"]

\* the sleep ends: the next k, or the end of range(180)
LU_Wake ==
    /\ lu.w.pc = "sleep"
    /\ lu' = IF lu.w.k + 1 < BREATHING_STEPS
             THEN [lu EXCEPT !.w.k = @ + 1, !.w.pc = "step"]
             ELSE [lu EXCEPT !.w.pc = "outer"]

\* start("Breathing", color, interval, intensity) has returned: the
\* parameters are stored and the thread is started
InitLiveUpdate ==
    \E c \in KColors, ivl \in KIntervals, i \in KIntensities :
      lu = [params |-> [color |-> c, interval |-> ivl, intensity |-> i],
            stop_event |-> FALSE, spawned |-> 1, gui |-> "idle",
            w |-> [pc |-> "outer", k |-> 0, color |-> c, interval |-> ivl,
                   intensity |-> i],
            write |-> <<>>, stale |-> 0]

\* no breathing with live parameters is under study
LiveUpdateIdle == lu = "none"

(***************************************************************************)
(* ripple (archive/kbdrgb_daemon.py, archive/kbdrgb.py: the same loop).    *)
(* The variable rp is one ripple thread:                                   *)
(*   led     : led_intensities, one entry per segment                      *)
(*   written : the intensity of the latest set_color of each segment,      *)
(*             0 before the first                                          *)
(*   round   : passes of the while loop so far                             *)
(*   follow  : the run records its keystrokes; such a run is followed for  *)
(*             TickRounds passes, any other for MaxRounds                  *)
(*   key     : in a run that records them, <<keystroke_led>> of the latest *)
(*             pass, <<>> if it had none                                   *)
(*   tick    : the set_color calls of the latest pass, in the order they   *)
(*             were made, as <<start_id, end_id, intensity>>               *)
(*   pc      : init, loop, init_failed or done                             *)
(*   stop    : stop_event.is_set()                                         *)
(***************************************************************************)
MaxLeds == 2             \* leds (20 in the programs)
MaxRounds == 22          \* passes of the while loop in one run
TickRounds == 5          \* passes of a run that records its keystrokes

RIPPLE_BASE == 51        \* base_intensity = int(0.20 * 255)
RIPPLE_BOOST == 12       \* ripple_boost = int(0.05 * 255)

Segments == 0..(MaxLeds - 1)

Abs(x) == IF x < 0 THEN -x ELSE x

\* a boost that is not capped
BoostedNoCap(x, boost) == x + boost

\* min(255, led_intensities[i] + boost)
Boosted(x, boost) == Min(255, x + boost)

\* the keystroke at segment key: for i in range(max(0, key - 2),
\* min(leds, key + 3)) boost by ripple_boost // (distance + 1)
Struck(led, key) ==
    [i \in Segments |->
       IF i \in Max(0, key - 2)..(Min(MaxLeds, key + 3) - 1)
       THEN Boosted(led[i], RIPPLE_BOOST \div (Abs(i - key) + 1))
       ELSE led[i]]

\* the decay of one pass: above the baseline go down by 2, not below it
Decayed(led) ==
    [i \in Segments |->
       IF led[i] > RIPPLE_BASE THEN Max(RIPPLE_BASE, led[i] - 2) ELSE led[i]]

\* the passes a run is followed for
RoundCap(follow) == IF follow THEN TickRounds ELSE MaxRounds

\* for seg in range(leds): set_color(dev_path, r, g, b,
\* led_intensities[seg], seg*5, seg*5+4), led being the list after the decay
TickWrites(led) ==
    [n \in 1..MaxLeds |-> <<(n - 1) * 5, (n - 1) * 5 + 4, led[n - 1]>>]

\* a pass that writes the segments only when a keystroke raised them
R_RoundOnBoost ==
    /\ rp.pc = "loop"
    /\ IF rp.stop
       THEN rp' = [rp EXCEPT !.pc = "done"]
       ELSE /\ rp.round < RoundCap(rp.follow)
            /\ \/ rp' = [rp EXCEPT !.led = Decayed(rp.led),
                                   !.round = @ + 1,
                                   !.key = <<>>,
                                   !.tick = <<>>]
               \/ \E key \in Segments :
                    rp' = [rp EXCEPT !.led = Decayed(Struck(rp.led, key)),
                                     !.written = Decayed(Struck(rp.led, key)),
                                     !.round = @ + 1,
                                     !.key = IF rp.follow THEN <<key>> ELSE <<>>,
                                     !.tick = TickWrites(Decayed(Struck(rp.led, key)))]
    /\ UNCHANGED devicePresent

\* disable_autonomous, then the baseline written to every segment
R_Init ==
    /\ rp.pc = "init"
    /\ \E ok \in ReportOutcomes :
         rp' = IF ok
               THEN [rp EXCEPT !.pc = "loop", !.written = [i \in Segments |-> RIPPLE_BASE]]
               ELSE [rp EXCEPT !.pc = "init_failed"]
    /\ UNCHANGED devicePresent

\* one pass of "while not stop_event.is_set()": a keystroke if the timer
\* has passed random.uniform(0.1, 0.5), at random.randint(0, leds - 1); the
\* decay and the set_color of every segment; the flag is tested again
\* before the sleep
R_Round ==
    /\ rp.pc = "loop"
    /\ IF rp.stop
       THEN rp' = [rp EXCEPT !.pc = "done"]
       ELSE /\ rp.round < RoundCap(rp.follow)
            /\ \E keys \in {<<>>} \cup {<<key>> : key \in Segments} :
                 LET boosted == IF keys = <<>> THEN rp.led ELSE Struck(rp.led, keys[1])
                 IN rp' = [rp EXCEPT !.led = Decayed(boosted),
                                     !.written = Decayed(boosted),
                                     !.round = @ + 1,
                                     !.key = IF rp.follow THEN keys ELSE <<>>,
                                     !.tick = TickWrites(Decayed(boosted))]
    /\ UNCHANGED devicePresent

\* the engine sets the stop flag
R_Stop ==
    /\ ~rp.stop
    /\ rp' = [rp EXCEPT !.stop = TRUE]
    /\ UNCHANGED devicePresent

\* ripple() was just called: led_intensities = [base_intensity] * leds
InitRipple ==
    rp = [led |-> [i \in Segments |-> RIPPLE_BASE], written |-> [i \in Segments |-> 0],
          round |-> 0, pc |-> "init", stop |-> FALSE, follow |-> FALSE,
          key |-> <<>>, tick |-> <<>>]

\* the same call, in a run that records its keystrokes
InitRippleTick ==
    rp = [led |-> [i \in Segments |-> RIPPLE_BASE], written |-> [i \in Segments |-> 0],
          round |-> 0, pc |-> "init", stop |-> FALSE, follow |-> TRUE,
          key |-> <<>>, tick |-> <<>>]

\* no ripple thread is under study
RippleIdle == rp = "none"

(***************************************************************************)
(* The intensities of one breathing run, step by step (kbdrgb.py and       *)
(* archive/kbdrgb_daemon.py).  The variable cy is the run:                 *)
(*   impl     : the program                                                *)
(*   target   : the intensity that was asked for                           *)
(*   interval : the period, in tenths of a second                          *)
(*   k, cycle : the loop index and the number of finished cycles           *)
(*   pc       : write or sleep                                             *)
(*   written  : <<k, intensity>> of the latest set_color, <<>> before it   *)
(***************************************************************************)
MaxCycles == 2           \* cycles followed in one run

CycleImpls == {"kbdrgb", "daemon"}
CycleIntervals == {5, 15}

\* steps = max(90, int(120 * interval)) in the daemon, range(180) in kbdrgb.py
CycleSteps(impl, interval) ==
    IF impl = "daemon" THEN Max(90, (120 * interval) \div 10) ELSE BREATHING_STEPS

\* the daemon: phase = (2 * math.pi) * (k / steps);
\* intensity = int(((1 - math.cos(phase)) * 0.5) * 255)
DBreathIntensity(k, steps) ==
    (((1000000 - Cos1e6((360 * k) \div steps)) \div 2) * 255) \div 1000000

\* the fourth argument of the set_color of step k
CycleIntensity(impl, k, steps, target) ==
    IF impl = "daemon" THEN DBreathIntensity(k, steps) ELSE KBreathIntensity(k, target)

\* set_color(dev_path, r, g, b, intensity) of step k
Y_Write ==
    /\ cy.pc = "write"
    /\ cy' = [cy EXCEPT
                !.written = <<cy.k, CycleIntensity(cy.impl, cy.k,
                                                   CycleSteps(cy.impl, cy.interval),
                                                   cy.target)>>,
                !.pc = "sleep"]

\* the sleep of the step ends: the next k, or k = 0 of the next cycle
Y_Wake ==
    /\ cy.pc = "sleep"
    /\ IF cy.k + 1 < CycleSteps(cy.impl, cy.interval)
       THEN cy' = [cy EXCEPT !.k = @ + 1, !.pc = "write"]
       ELSE /\ cy.cycle + 1 < MaxCycles
            /\ cy' = [cy EXCEPT !.k = 0, !.cycle = @ + 1, !.pc = "write"]

\* breathing was started with a colour, an interval and an intensity
InitCycle ==
    \E impl \in CycleImpls, t \in KIntensities, ivl \in CycleIntervals :
      cy = [impl |-> impl, target |-> t, interval |-> ivl, k |-> 0, cycle |-> 0,
            pc |-> "write", written |-> <<>>]

\* no breathing run is followed
CycleIdle == cy = "none"

(***************************************************************************)
(* The rainbow of archive/kbdrgb_daemon.py and of                          *)
(* archive/OldCode/archive/kbdrgb_gui.py.  The variable rb is one run:     *)
(*   impl     : the program                                                *)
(*   k, cycle : the index of the for loop and the number of finished loops *)
(*   pc       : check, write, sleep or done                                *)
(*   stop     : stop_event                                                 *)
(*   written  : <<k, <<r, g, b>>>> of the latest set_color, <<>> before it *)
(*   first    : the colour of the first set_color of the run, <<>> before  *)
(***************************************************************************)
RainbowImpls == {"daemon", "oldgui"}

DAEMON_RAINBOW_STEPS == 180
GUI_RAINBOW_STEPS == 360

\* steps = 180 in the daemon, steps = 360 in the old GUI
RainbowSteps(impl) ==
    IF impl = "daemon" THEN DAEMON_RAINBOW_STEPS ELSE GUI_RAINBOW_STEPS

\* math.sin of an even number of degrees, times 10^6
Sin1e6(deg) == Cos1e6(deg + 270)

\* int(255 * (math.sin(2 * math.pi * hue + phase) * 0.5 + 0.5)), hue = k / 180
SinChannel(k, phaseDeg) ==
    (255 * (Sin1e6(2 * k + phaseDeg) + 1000000)) \div 2000000

\* r, g, b of the daemon at step k
DaemonRainbowColor(k) ==
    <<SinChannel(k, 0), SinChannel(k, 120), SinChannel(k, 240)>>

\* qRound of 65535 * n / 60
QRound60(n) == (2 * 65535 * n + 60) \div 120

\* QColor.fromHsvF(k / 360, 1.0, 1.0) read back with red(), green(), blue():
\* the hue is kept as round(36000 * k / 360), sector i = hue / 6000 and
\* f = the rest, the channels are 16 bits wide and read back as the high byte
QHsvColor(k) ==
    LET i == k \div 60
        m == k % 60
        v == 65535
        p == 0
        q == QRound60(60 - m)
        t == QRound60(m)
        rgb == CASE i = 0 -> <<v, t, p>>
                 [] i = 1 -> <<q, v, p>>
                 [] i = 2 -> <<p, v, t>>
                 [] i = 3 -> <<p, q, v>>
                 [] i = 4 -> <<t, p, v>>
                 [] OTHER -> <<v, p, q>>
    IN <<rgb[1] \div 256, rgb[2] \div 256, rgb[3] \div 256>>

\* the colour of step k
RainbowColor(impl, k) ==
    IF impl = "daemon" THEN DaemonRainbowColor(k) ELSE QHsvColor(k)

\* a for loop that starts again at k = 1
N_WakeSkipsZero ==
    /\ rb.pc = "sleep"
    /\ IF rb.k + 1 < RainbowSteps(rb.impl)
       THEN rb' = [rb EXCEPT !.k = @ + 1, !.pc = "check"]
       ELSE /\ rb.cycle + 1 < MaxCycles
            /\ rb' = [rb EXCEPT !.k = 1, !.cycle = @ + 1, !.pc = "check"]

\* if stop_event.is_set(): return
N_Check ==
    /\ rb.pc = "check"
    /\ rb' = [rb EXCEPT !.pc = IF rb.stop THEN "done" ELSE "write"]

\* hue = k / steps; set_color(dev_path, r, g, b, 255)
N_Write ==
    /\ rb.pc = "write"
    /\ LET c == RainbowColor(rb.impl, rb.k)
       IN rb' = [rb EXCEPT !.written = <<rb.k, c>>,
                           !.first = IF @ = <<>> THEN c ELSE @,
                           !.pc = "sleep"]

\* time.sleep(interval) ends: the next k, or the while loop starts the for
\* loop again with k = 0
N_Wake ==
    /\ rb.pc = "sleep"
    /\ IF rb.k + 1 < RainbowSteps(rb.impl)
       THEN rb' = [rb EXCEPT !.k = @ + 1, !.pc = "check"]
       ELSE /\ rb.cycle + 1 < MaxCycles
            /\ rb' = [rb EXCEPT !.k = 0, !.cycle = @ + 1, !.pc = "check"]

\* stop_event.set() of the controller
N_Stop ==
    /\ rb.pc # "done"
    /\ ~rb.stop
    /\ rb' = [rb EXCEPT !.stop = TRUE]

\* the rainbow was started
InitRainbow ==
    \E impl \in RainbowImpls :
      rb = [impl |-> impl, k |-> 0, cycle |-> 0, pc |-> "check", stop |-> FALSE,
            written |-> <<>>, first |-> <<>>]

\* no rainbow run is followed
RainbowIdle == rb = "none"

(***************************************************************************)
(* The loops of the patterns of archive/kbdrgb.py (breathing, rainbow,     *)
(* flash, pulse, wave, spectrum, fade, strobe, ripple) and of the          *)
(* breathing of kbdrgb.py ("kbreathing").  The variable pt is one worker:  *)
(*   pattern  : the function that runs                                     *)
(*   interval : the period, in tenths of a second                          *)
(*   pc       : init, while, for, write, post, sleep, mid or done          *)
(*   k        : the index of the for loop; the half (0 on, 1 off) of       *)
(*              flash, pulse and strobe                                    *)
(*   stop     : stop_event                                                 *)
(*   checked  : stop_event was read since the latest step began            *)
(*   parity   : flips with every step (a set_color, or the set_color of    *)
(*              every segment in wave, spectrum and ripple)                *)
(*   late     : the number of steps begun while stop_event was set         *)
(*   sent     : flash, pulse, strobe: the latest set_color of the worker,  *)
(*              <<the colour is base_color, the intensity>>; <<>> before   *)
(*              the first one                                              *)
(***************************************************************************)
ForPatterns == {"breathing", "rainbow", "wave", "spectrum", "fade", "kbreathing"}
HalfPatterns == {"flash", "pulse", "strobe"}
Patterns == ForPatterns \cup HalfPatterns \cup {"ripple"}

WAVE_LEDS == 20
FADE_MIN_STEPS == 60

\* the length of the for loop of a pattern
PatternSteps(pattern, interval) ==
    CASE pattern = "breathing" -> Max(90, (120 * interval) \div 10)
      [] pattern = "rainbow" -> DAEMON_RAINBOW_STEPS
      [] pattern \in {"wave", "spectrum"} -> WAVE_LEDS
      [] pattern = "fade" -> Max(FADE_MIN_STEPS, (120 * interval) \div 10) + 1
      [] pattern = "kbreathing" -> BREATHING_STEPS
      [] OTHER -> 2

\* flash, pulse, strobe: the arguments of the set_color of half k, as
\* <<the colour is base_color, the intensity>>
HalfValue(pattern, k) ==
    IF k = 0 THEN <<TRUE, 255>>
    ELSE IF pattern = "pulse" THEN <<TRUE, 64>> ELSE <<FALSE, 0>>

\* a sleep after which flash, pulse and strobe always begin the loop again
P_SleepNoHalf ==
    /\ pt.pc = "sleep"
    /\ pt' = [pt EXCEPT
                !.pc = IF pt.pattern \in ForPatterns
                          /\ pt.k + 1 < PatternSteps(pt.pattern, pt.interval)
                       THEN "for" ELSE "while",
                !.k = IF pt.pattern \in ForPatterns
                         /\ pt.k + 1 < PatternSteps(pt.pattern, pt.interval)
                      THEN @ + 1 ELSE @]

\* a for loop that does not read stop_event
P_ForBlind ==
    /\ pt.pc = "for"
    /\ pt' = [pt EXCEPT !.pc = "write"]

\* disable_autonomous; the archive returns when it fails; ripple then writes
\* the baseline to every segment
P_Init ==
    /\ pt.pc = "init"
    /\ \E ok \in BOOLEAN :
         pt' = [pt EXCEPT !.pc = IF ok \/ pt.pattern = "kbreathing"
                                 THEN "while" ELSE "done"]

\* while not stop_event.is_set():
P_While ==
    /\ pt.pc = "while"
    /\ pt' = [pt EXCEPT !.pc = IF pt.stop THEN "done"
                               ELSE IF pt.pattern \in ForPatterns THEN "for"
                               ELSE "write",
                        !.k = 0,
                        !.checked = TRUE]

\* for k in range(steps): if stop_event.is_set(): return (break in kbdrgb.py,
\* which also breaks when param_provider returns a new interval)
P_For ==
    /\ pt.pc = "for"
    /\ \E newInterval \in BOOLEAN :
         pt' = [pt EXCEPT !.pc = IF pt.stop
                                 THEN IF pt.pattern = "kbreathing" THEN "while" ELSE "done"
                                 ELSE IF newInterval /\ pt.pattern = "kbreathing"
                                      THEN "while" ELSE "write",
                          !.checked = TRUE]

\* the set_color of the step; breathing returns when it fails; ripple reads
\* stop_event before it sleeps
P_Write ==
    /\ pt.pc = "write"
    /\ \E ok \in BOOLEAN :
         pt' = [pt EXCEPT !.pc = IF pt.pattern = "ripple" THEN "post"
                                 ELSE IF ~ok /\ pt.pattern = "breathing" THEN "done"
                                 ELSE "sleep",
                          !.parity = 1 - @,
                          !.checked = FALSE,
                          !.late = IF pt.stop THEN @ + 1 ELSE @,
                          !.sent = IF pt.pattern \in HalfPatterns
                                   THEN HalfValue(pt.pattern, pt.k) ELSE @]

\* ripple: if stop_event.is_set(): return
P_Post ==
    /\ pt.pc = "post"
    /\ pt' = [pt EXCEPT !.pc = IF pt.stop THEN "done" ELSE "sleep"]

\* time.sleep ends
P_Sleep ==
    /\ pt.pc = "sleep"
    /\ pt' = [pt EXCEPT
                !.pc = IF pt.pattern \in ForPatterns
                       THEN IF pt.k + 1 < PatternSteps(pt.pattern, pt.interval)
                            THEN "for" ELSE "while"
                       ELSE IF pt.pattern \in HalfPatterns /\ pt.k = 0
                            THEN "mid" ELSE "while",
                !.k = IF pt.pattern \in ForPatterns
                         /\ pt.k + 1 < PatternSteps(pt.pattern, pt.interval)
                      THEN @ + 1 ELSE @]

\* flash, pulse, strobe: if stop_event.is_set(): return, between the halves
P_Mid ==
    /\ pt.pc = "mid"
    /\ pt' = [pt EXCEPT !.pc = IF pt.stop THEN "done" ELSE "write",
                        !.k = 1,
                        !.checked = TRUE]

\* stop_event.set() of the controller
P_Stop ==
    /\ pt.pc # "done"
    /\ ~pt.stop
    /\ pt' = [pt EXCEPT !.stop = TRUE]

\* a worker thread was started with a cleared stop_event
InitPattern ==
    \E p \in Patterns, ivl \in CycleIntervals :
      pt = [pattern |-> p, interval |-> ivl, pc |-> "init", k |-> 0, stop |-> FALSE,
            checked |-> FALSE, parity |-> 0, late |-> 0, sent |-> <<>>]

\* no pattern worker is followed
PatternIdle == pt = "none"

(***************************************************************************)
(* The watchdog of the window of archive/kbdrgb.py and of                  *)
(* archive/OldCode/archive/kbdrgb_gui.py.  Times are tenths of a second.   *)
(* The variable wd holds                                                   *)
(*   now            : time.monotonic()                                     *)
(*   last_heartbeat : the attribute written by the heartbeat timer         *)
(*   pc, wake       : the watchdog thread: check, sleep (until wake), done *)
(*   watchdog_stop  : the event set by closeEvent                          *)
(*   checks         : flips with every gap the watchdog computes           *)
(*   errors         : the number of stall errors logged                    *)
(*   device         : flips with every report the window writes            *)
(*   engine         : an animation thread is running                       *)
(*   lease          : the PID file of the process exists                   *)
(***************************************************************************)
MaxNow == 26             \* the time followed

WATCHDOG_INTERVAL_SEC == 5
WATCHDOG_STALL_THRESHOLD_SEC == 20

\* a watchdog that restarts what it finds stalled
D_CheckRecover ==
    /\ wd.pc = "check"
    /\ IF wd.watchdog_stop
       THEN wd' = [wd EXCEPT !.pc = "done"]
       ELSE LET stalled == wd.now - wd.last_heartbeat > WATCHDOG_STALL_THRESHOLD_SEC
            IN wd' = [wd EXCEPT !.checks = 1 - @,
                                !.errors = IF stalled THEN @ + 1 ELSE @,
                                !.last_heartbeat = IF stalled THEN wd.now ELSE @,
                                !.engine = IF stalled THEN FALSE ELSE @,
                                !.pc = "sleep",
                                !.wake = wd.now + WATCHDOG_INTERVAL_SEC]

\* time passes
T_Tick ==
    /\ wd.now < MaxNow
    /\ wd' = [wd EXCEPT !.now = @ + 1]

\* the heartbeat timer fires in the event loop: on_ui_heartbeat, on_heartbeat
G_Heartbeat ==
    /\ ~wd.watchdog_stop
    /\ wd.last_heartbeat # wd.now
    /\ wd' = [wd EXCEPT !.last_heartbeat = wd.now]

\* the window applies a style: a report is written, an animation thread runs
\* for every style but static
G_Apply ==
    /\ ~wd.watchdog_stop
    /\ \E animated \in BOOLEAN :
         wd' = [wd EXCEPT !.device = 1 - @, !.engine = animated]

\* closeEvent sets watchdog_stop; the PID file goes when main returns
G_Close ==
    /\ ~wd.watchdog_stop
    /\ \E quit \in BOOLEAN :
         wd' = [wd EXCEPT !.watchdog_stop = TRUE, !.lease = ~quit]

\* one turn of watchdog_loop: the loop ends when watchdog_stop is set, else
\* the gap is computed, an error is logged when it is above the threshold,
\* and the thread sleeps
D_Check ==
    /\ wd.pc = "check"
    /\ IF wd.watchdog_stop
       THEN wd' = [wd EXCEPT !.pc = "done"]
       ELSE LET gap == wd.now - wd.last_heartbeat
            IN wd' = [wd EXCEPT !.checks = 1 - @,
                                !.errors = IF gap > WATCHDOG_STALL_THRESHOLD_SEC
                                           THEN @ + 1 ELSE @,
                                !.pc = "sleep",
                                !.wake = wd.now + WATCHDOG_INTERVAL_SEC]

\* time.sleep(WATCHDOG_INTERVAL_SEC) ends
D_Wake ==
    /\ wd.pc = "sleep"
    /\ wd.now >= wd.wake
    /\ wd' = [wd EXCEPT !.pc = "check"]

\* the window was built: the heartbeat is taken, the timer and the watchdog
\* thread are started
InitWatchdog ==
    wd = [now |-> 0, last_heartbeat |-> 0, pc |-> "check", wake |-> 0,
          watchdog_stop |-> FALSE, checks |-> 0, errors |-> 0, device |-> 0,
          engine |-> FALSE, lease |-> TRUE]

\* no watchdog is followed
WatchdogIdle == wd = "none"

(***************************************************************************)
(* handle_cli of kbdrgb.py: one run of the program with --mode.  The       *)
(* variable cli holds                                                      *)
(*   mode, color, brightness : the arguments                               *)
(*   pc      : the main thread: start, sleep, shutdown (the interpreter    *)
(*             joins the threads that are not daemons), terminated         *)
(*   thread  : [daemon, alive, k] of animator.thread, NoThread for None    *)
(*   stop_event : the event of the AnimationController                     *)
(*   written : the arguments of the latest set_color, <<>> before it       *)
(***************************************************************************)
\* self.thread = None
NoThread == [daemon |-> FALSE, alive |-> FALSE, k |-> 0]

\* animator.start(args.mode, color, speed, brightness): stop() finds no
\* thread; static and the styles without a live version write once, breathing
\* starts a thread with daemon=False
X_Start ==
    /\ cli.pc = "start"
    /\ cli' = [cli EXCEPT
                 !.pc = "sleep",
                 !.thread = IF cli.mode = "Breathing"
                            THEN [daemon |-> FALSE, alive |-> TRUE, k |-> 0] ELSE @,
                 !.written = IF cli.mode = "Breathing" THEN @
                             ELSE <<cli.color, cli.brightness>>]

\* time.sleep(0.1); sys.exit(0)
X_Exit ==
    /\ cli.pc = "sleep"
    /\ cli' = [cli EXCEPT !.pc = "shutdown"]

\* the interpreter ends once no thread with daemon=False is alive
X_Shutdown ==
    /\ cli.pc = "shutdown"
    /\ cli.thread.daemon \/ ~cli.thread.alive
    /\ cli' = [cli EXCEPT !.pc = "terminated", !.thread.alive = FALSE]

\* one step of breathing in the thread: it ends when stop_event is set, else
\* it writes the intensity of step k and sleeps
X_Breathe ==
    /\ cli.thread.alive
    /\ cli.pc # "terminated"
    /\ IF cli.stop_event
       THEN cli' = [cli EXCEPT !.thread.alive = FALSE]
       ELSE cli' = [cli EXCEPT
                      !.written = <<cli.color, KBreathIntensity(cli.thread.k, cli.brightness)>>,
                      !.thread.k = (@ + 1) % BREATHING_STEPS]

\* the program was started with --mode
InitCli ==
    \E m \in KStyles, c \in KColors, i \in KIntensities :
      cli = [mode |-> m, color |-> c, brightness |-> i, pc |-> "start",
             thread |-> NoThread, stop_event |-> FALSE, written |-> <<>>]

\* no command-line run is followed
CliIdle == cli = "none"

(***************************************************************************)
(* The daemon processes of archive/kbdrgb_daemon.py, call by call: main,   *)
(* run, apply_state and one turn of watch_state_file each as one step.     *)
(* The variable dm holds                                                   *)
(*   now      : the clock that stamps st_mtime                             *)
(*   file     : DAEMON_STATE_FILE: [exists, rec, mtime, gen], gen counting *)
(*              the writes of the file                                     *)
(*   pid_file : PID_FILE: 0 when it does not exist, else the pid in it     *)
(*   d        : the processes started: pid ->                              *)
(*       pc         : idle, m_pid, m_load, m_watch, running, exited, died  *)
(*       poller     : unborn, alive, exited                                *)
(*       last_mtime : watch_state_file's last_mtime                        *)
(*       stop_event : DaemonState.stop_event                               *)
(*       anim       : the style of the live animation thread, or "none"    *)
(*       calls      : the gen of the file at each start_animation call     *)
(***************************************************************************)
MaxDaemons == 2          \* daemon processes started in one run
MaxWrites == 2           \* writes of the state file in one run

DaemonPids == 1..MaxDaemons

\* the values a writer may put into the state file
GoodRecords ==
    { [type |-> "object", style |-> "rainbow"],
      [type |-> "object", style |-> "static", color |-> <<255, 0, 0>>] }
BadRecords ==
    { [type |-> "array"],                                           \* [1]
      [type |-> "object", style |-> "static", color |-> <<255, 0>>] }
DRecords == GoodRecords \cup BadRecords

AbsentFile == [exists |-> FALSE, rec |-> [type |-> "array"], mtime |-> 0, gen |-> 0]

NotStarted == [pc |-> "idle", poller |-> "unborn", last_mtime |-> 0, stop_event |-> FALSE,
               anim |-> "none", calls |-> <<>>]

\* apply_state(state) in process record s, the file being at gen g: the new
\* process record and whether an exception left the call.
\*   state.get on a value that is no dict          AttributeError
\*   start_animation: stop_animation() first (the flag is set and the thread
\*   joined when one is alive), then
\*   static: set_color(device_path, *color, intensity) with a color that has
\*   not three entries                              TypeError
\*   else stop_event.clear() and the thread, or the warning
ApplyState(s, rec, g) ==
    IF rec.type # "object" THEN [s |-> s, raised |-> TRUE]
    ELSE LET style == Get(rec, "style", "static")
             color == Get(rec, "color", <<255, 255, 255>>)
             stopped == [s EXCEPT !.stop_event = IF s.anim # "none" THEN TRUE ELSE @,
                                  !.anim = "none",
                                  !.calls = Append(@, g)]
         IN IF style = "static"
            THEN [s |-> stopped, raised |-> Len(color) # 3]
            ELSE [s |-> [stopped EXCEPT !.stop_event = FALSE,
                                        !.anim = IF style \in DaemonAnims THEN style
                                                 ELSE "none"],
                  raised |-> FALSE]

\* time passes
F_Tick ==
    /\ dm.now < MaxTime
    /\ dm' = [dm EXCEPT !.now = @ + 1]

\* a writer replaces the state file
F_Write(r) ==
    /\ dm.file.gen < MaxWrites
    /\ dm' = [dm EXCEPT !.file = [exists |-> TRUE, rec |-> r, mtime |-> dm.now,
                                  gen |-> dm.file.gen + 1]]

\* main() without an argument: daemon = RGBDaemon(); daemon.run()
O_Start(p) ==
    /\ dm.d[p].pc = "idle"
    /\ \A q \in DaemonPids : q < p => dm.d[q].pc # "idle"
    /\ dm' = [dm EXCEPT !.d[p].pc = "m_pid"]

\* run(): self.write_pid()
O_WritePid(p) ==
    /\ dm.d[p].pc = "m_pid"
    /\ dm' = [dm EXCEPT !.pid_file = p, !.d[p].pc = "m_load"]

\* run(): state = load_state(); if state: apply_state(state); an exception
\* leaves run() through finally: self.remove_pid()
O_Load(p) ==
    /\ dm.d[p].pc = "m_load"
    /\ IF dm.file.exists
       THEN LET a == ApplyState(dm.d[p], dm.file.rec, dm.file.gen)
            IN IF a.raised
               THEN dm' = [dm EXCEPT !.d[p] = [a.s EXCEPT !.pc = "died"], !.pid_file = 0]
               ELSE dm' = [dm EXCEPT !.d[p] = [a.s EXCEPT !.pc = "m_watch"]]
       ELSE dm' = [dm EXCEPT !.d[p].pc = "m_watch"]

\* run(): watch_thread.start()
O_StartWatch(p) ==
    /\ dm.d[p].pc = "m_watch"
    /\ dm' = [dm EXCEPT !.d[p].pc = "running", !.d[p].poller = "alive"]

\* one turn of watch_state_file: the loop ends when stop_event is set; a
\* file with a larger mtime is loaded and applied, an exception is logged
O_Poll(p) ==
    /\ dm.d[p].poller = "alive"
    /\ IF dm.d[p].stop_event
       THEN dm' = [dm EXCEPT !.d[p].poller = "exited"]
       ELSE /\ dm.file.exists
            /\ dm.file.mtime > dm.d[p].last_mtime
            /\ dm' = [dm EXCEPT !.d[p] =
                        [ApplyState(dm.d[p], dm.file.rec, dm.file.gen).s
                           EXCEPT !.last_mtime = dm.file.mtime]]

\* SIGTERM or SIGINT: the handler sets the flag and stops the animation, run()
\* leaves its loop, joins the poller and removes the PID file
O_Shutdown(p) ==
    /\ dm.d[p].pc = "running"
    /\ dm' = [dm EXCEPT !.d[p] = [@ EXCEPT !.pc = "exited", !.poller = "exited",
                                           !.stop_event = TRUE, !.anim = "none"],
                        !.pid_file = 0]

\* no daemon was started yet; a state file may be there
InitDaemons ==
    \E f \in {AbsentFile} \cup
             {[exists |-> TRUE, rec |-> r, mtime |-> 1, gen |-> 0] : r \in DRecords} :
      dm = [now |-> 1, file |-> f, pid_file |-> 0,
            d |-> [p \in DaemonPids |-> NotStarted]]

\* no daemon process is followed call by call
DaemonsIdle == dm = "none"

(***************************************************************************)
(* Single-instance launch and IPCListener (archive/kbdrgb.py)              *)
(***************************************************************************)
MaxProcs == 3            \* processes launched in one run
MaxQueue == 2            \* connections waiting at one listening socket

Procs == 1..MaxProcs

\* positions of main() before it is an instance, and of an instance
LaunchPcs == {"l_exists", "l_read", "l_kill", "l_connect", "l_send", "l_cleanup"}
StartPcs == {"i_open", "i_write", "i_bind"}
AlivePcs == LaunchPcs \cup StartPcs \cup {"running"}

NoPidFile == [exists |-> FALSE, text |-> 0]
NoSocket == [exists |-> FALSE, owner |-> 0]

\* the bytes a client writes to the socket
NoData == [utf8 |-> TRUE, json |-> FALSE, empty |-> TRUE, val |-> [type |-> "none"]]
Text(v) == [utf8 |-> TRUE, json |-> TRUE, empty |-> FALSE, val |-> v]
ShowMsg == Text([type |-> "object", command |-> "show"])
Messages ==
    { ShowMsg,
      Text([type |-> "object"]),                                \* {}
      Text([type |-> "array"]),                                 \* [1]
      [utf8 |-> TRUE, json |-> FALSE, empty |-> FALSE, val |-> [type |-> "none"]],
      [utf8 |-> FALSE, json |-> FALSE, empty |-> FALSE, val |-> [type |-> "none"]] }

\* one pass of the listener loop over the received bytes:
\*   data.decode('utf-8')  UnicodeDecodeError  -> except Exception: break
\*   json.loads            JSONDecodeError     -> logged, loop goes on
\*   command_received.emit(msg) of a pyqtSignal(dict): TypeError for a value
\*                         that is no dict     -> except Exception: break
\*   handle_ipc_command    msg.get("command") == "show"
ListenerOutcome(m) ==
    IF m.empty THEN "ignored"
    ELSE IF ~m.utf8 THEN "break"
    ELSE IF ~m.json THEN "logged"
    ELSE IF m.val.type # "object" THEN "break"
    ELSE IF "command" \in DOMAIN m.val /\ m.val.command = "show" THEN "show"
    ELSE "ignored"

ProcAlive(q) == q \in Procs /\ ipc_pc[q] \in AlivePcs

\* connect(SOCKET_FILE) reaches q's listening socket
Accepting(q) == ipc_pc[q] = "running" /\ lst[q] = "accepting"
Connectable(q) == SOCKET_FILE.exists /\ SOCKET_FILE.owner = q /\ Accepting(q)

\* a first instance that is alive and whose socket accepts connections
LiveFirst == \E q \in Procs : Connectable(q)

InFlight == {p \in Procs : ipc_pc[p] \in LaunchPcs}

\* launches do not overlap: nobody else is between launch and running
LaunchSerial(p) ==
    \A q \in Procs \ {p} : ipc_pc[q] \notin (LaunchPcs \cup StartPcs)

Launch(p) ==
    /\ ipc_pc[p] = "idle"
    /\ \A q \in Procs : q < p => ipc_pc[q] # "idle"
    /\ LaunchSerial(p)
    /\ ipc_pc' = [ipc_pc EXCEPT ![p] = "l_exists"]
    /\ lstable' = IF LiveFirst THEN lstable \cup {p} ELSE lstable
    /\ UNCHANGED <<PID_FILE, SOCKET_FILE, lpid, pidTaken, lst, inbox, devWrote, wrotePid,
                   boundSock, sentMsgs, foundStale>>

\* if PID_FILE.exists():
L_Exists(p) ==
    /\ ipc_pc[p] = "l_exists"
    /\ ipc_pc' = [ipc_pc EXCEPT ![p] = IF PID_FILE.exists THEN "l_read" ELSE "i_open"]
    /\ UNCHANGED <<PID_FILE, SOCKET_FILE, lpid, pidTaken, lst, inbox, devWrote, wrotePid,
                   boundSock, sentMsgs, lstable, foundStale>>

\* pid = int(PID_FILE.read_text().strip()): FileNotFoundError, ValueError
L_Read(p) ==
    /\ ipc_pc[p] = "l_read"
    /\ IF ~PID_FILE.exists
       THEN /\ ipc_pc' = [ipc_pc EXCEPT ![p] = "l_cleanup"]
            /\ UNCHANGED <<lpid, foundStale>>
       ELSE IF PID_FILE.text = 0
       THEN /\ ipc_pc' = [ipc_pc EXCEPT ![p] = "l_cleanup"]
            /\ foundStale' = foundStale \cup {p}
            /\ UNCHANGED lpid
       ELSE /\ ipc_pc' = [ipc_pc EXCEPT ![p] = "l_kill"]
            /\ lpid' = [lpid EXCEPT ![p] = PID_FILE.text]
            /\ foundStale' = IF ProcAlive(PID_FILE.text) THEN foundStale
                             ELSE foundStale \cup {p}
    /\ UNCHANGED <<PID_FILE, SOCKET_FILE, pidTaken, lst, inbox, devWrote, wrotePid,
                   boundSock, sentMsgs, lstable>>

\* os.kill(pid, 0): ProcessLookupError for a pid nobody has; PermissionError,
\* which the except clause does not list, for another user's process
L_Kill(p) ==
    /\ ipc_pc[p] = "l_kill"
    /\ ipc_pc' = [ipc_pc EXCEPT ![p] =
                    IF ProcAlive(lpid[p]) \/ pidTaken[lpid[p]] = "same_user"
                    THEN "l_connect"
                    ELSE IF pidTaken[lpid[p]] = "other_user" THEN "l_failed"
                    ELSE "l_cleanup"]
    /\ UNCHANGED <<PID_FILE, SOCKET_FILE, lpid, pidTaken, lst, inbox, devWrote,
                   wrotePid, boundSock, sentMsgs, lstable, foundStale>>

\* client.connect(SOCKET_FILE): FileNotFoundError, ConnectionRefusedError; the
\* call waits while the listener's backlog is full
L_Connect(p) ==
    /\ ipc_pc[p] = "l_connect"
    /\ IF \E q \in Procs : Connectable(q)
       THEN LET q == SOCKET_FILE.owner IN
            /\ Len(inbox[q]) < MaxQueue
            /\ inbox' = [inbox EXCEPT ![q] = Append(@, [from |-> p, msg |-> NoData])]
            /\ lpid' = [lpid EXCEPT ![p] = q]
            /\ ipc_pc' = [ipc_pc EXCEPT ![p] = "l_send"]
       ELSE /\ ipc_pc' = [ipc_pc EXCEPT ![p] = "l_cleanup"]
            /\ UNCHANGED <<inbox, lpid>>
    /\ UNCHANGED <<PID_FILE, SOCKET_FILE, pidTaken, lst, devWrote, wrotePid,
                   boundSock, sentMsgs, lstable, foundStale>>

\* client.sendall(json.dumps({"command": "show"}).encode('utf-8')); sys.exit(0)
\* (BrokenPipeError, not caught, when the peer is gone)
L_Send(p) ==
    /\ ipc_pc[p] = "l_send"
    /\ LET q == lpid[p] IN
       IF Accepting(q) /\ \E i \in 1..Len(inbox[q]) : inbox[q][i].from = p
       THEN /\ inbox' = [inbox EXCEPT ![q] =
                          [i \in 1..Len(@) |->
                              IF @[i].from = p THEN [from |-> p, msg |-> ShowMsg] ELSE @[i]]]
            /\ sentMsgs' = [sentMsgs EXCEPT ![p] = Append(@, ShowMsg)]
            /\ ipc_pc' = [ipc_pc EXCEPT ![p] = "forwarded"]
       ELSE /\ ipc_pc' = [ipc_pc EXCEPT ![p] = "l_failed"]
            /\ UNCHANGED <<inbox, sentMsgs>>
    /\ UNCHANGED <<PID_FILE, SOCKET_FILE, lpid, pidTaken, lst, devWrote, wrotePid,
                   boundSock, lstable, foundStale>>

\* except (...): PID_FILE.unlink(missing_ok=True); os.unlink(SOCKET_FILE)
L_Cleanup(p) ==
    /\ ipc_pc[p] = "l_cleanup"
    /\ PID_FILE' = NoPidFile
    /\ SOCKET_FILE' = NoSocket
    /\ ipc_pc' = [ipc_pc EXCEPT ![p] = "i_open"]
    /\ UNCHANGED <<lpid, pidTaken, lst, inbox, devWrote, wrotePid, boundSock, sentMsgs,
                   lstable, foundStale>>

\* KeyboardLightingWindow.__init__: PID_FILE.write_text opens (truncates) ...
I_OpenPid(p) ==
    /\ ipc_pc[p] = "i_open"
    /\ PID_FILE' = [exists |-> TRUE, text |-> 0]
    /\ wrotePid' = wrotePid \cup {p}
    /\ ipc_pc' = [ipc_pc EXCEPT ![p] = "i_write"]
    /\ UNCHANGED <<SOCKET_FILE, lpid, pidTaken, lst, inbox, devWrote, boundSock, sentMsgs,
                   lstable, foundStale>>

\* ... and writes str(os.getpid())
I_WritePid(p) ==
    /\ ipc_pc[p] = "i_write"
    /\ PID_FILE' = [exists |-> TRUE, text |-> p]
    /\ ipc_pc' = [ipc_pc EXCEPT ![p] = "i_bind"]
    /\ UNCHANGED <<SOCKET_FILE, lpid, pidTaken, lst, inbox, devWrote, wrotePid, boundSock,
                   sentMsgs, lstable, foundStale>>

\* IPCListener.run: unlink the socket file, bind, listen
I_Bind(p) ==
    /\ ipc_pc[p] = "i_bind"
    /\ SOCKET_FILE' = [exists |-> TRUE, owner |-> p]
    /\ lst' = [lst EXCEPT ![p] = "accepting"]
    /\ boundSock' = boundSock \cup {p}
    /\ ipc_pc' = [ipc_pc EXCEPT ![p] = "running"]
    /\ UNCHANGED <<PID_FILE, lpid, pidTaken, inbox, devWrote, wrotePid, sentMsgs,
                   lstable, foundStale>>

\* the auto-restore of the instance: apply_lighting writes to the device
DevWrite(p) ==
    /\ ipc_pc[p] = "running"
    /\ devicePresent
    /\ p \notin devWrote
    /\ devWrote' = devWrote \cup {p}
    /\ UNCHANGED <<ipc_pc, PID_FILE, SOCKET_FILE, lpid, pidTaken, lst, inbox, wrotePid,
                   boundSock, sentMsgs, lstable, foundStale>>

\* some other client connects and writes m
EnvSend(m) ==
    /\ \E q \in Procs : Connectable(q)
    /\ LET q == SOCKET_FILE.owner IN
       /\ Len(inbox[q]) < MaxQueue
       /\ inbox' = [inbox EXCEPT ![q] = Append(@, [from |-> 0, msg |-> m])]
    /\ UNCHANGED <<ipc_pc, PID_FILE, SOCKET_FILE, lpid, pidTaken, lst, devWrote, wrotePid,
                   boundSock, sentMsgs, lstable, foundStale>>

\* accept, recv, decode, json.loads, emit
Lst_Handle(q) ==
    /\ Accepting(q)
    /\ inbox[q] # <<>>
    /\ Head(inbox[q]).msg # NoData
    /\ IF ListenerOutcome(Head(inbox[q]).msg) = "break"
       THEN /\ lst' = [lst EXCEPT ![q] = "dead"]
            /\ inbox' = [inbox EXCEPT ![q] = <<>>]
            /\ lstable' = lstable \ InFlight
       ELSE /\ inbox' = [inbox EXCEPT ![q] = Tail(@)]
            /\ UNCHANGED <<lst, lstable>>
    /\ UNCHANGED <<ipc_pc, PID_FILE, SOCKET_FILE, lpid, pidTaken, devWrote, wrotePid,
                   boundSock, sentMsgs, foundStale>>

\* app.exec() returns: PID_FILE.unlink(missing_ok=True); os.unlink(SOCKET_FILE)
Quit(q) ==
    /\ ipc_pc[q] = "running"
    /\ PID_FILE' = NoPidFile
    /\ SOCKET_FILE' = NoSocket
    /\ ipc_pc' = [ipc_pc EXCEPT ![q] = "exited"]
    /\ lst' = [lst EXCEPT ![q] = "none"]
    /\ inbox' = [inbox EXCEPT ![q] = <<>>]
    /\ lstable' = lstable \ InFlight
    /\ UNCHANGED <<lpid, pidTaken, devWrote, wrotePid, boundSock, sentMsgs, foundStale>>

\* the process is killed: nothing is cleaned up
Crash(q) ==
    /\ ipc_pc[q] \in {"i_write", "running"}
    /\ ipc_pc' = [ipc_pc EXCEPT ![q] = "crashed"]
    /\ lst' = [lst EXCEPT ![q] = "none"]
    /\ inbox' = [inbox EXCEPT ![q] = <<>>]
    /\ lstable' = lstable \ InFlight
    /\ UNCHANGED <<PID_FILE, SOCKET_FILE, lpid, pidTaken, devWrote, wrotePid,
                   boundSock, sentMsgs, foundStale>>

\* the pid PID_FILE names belonged to a process that is gone; the system hands
\* it to an unrelated process of this or of another user
PidReuse(u) ==
    /\ PID_FILE.exists /\ PID_FILE.text # 0
    /\ ~ProcAlive(PID_FILE.text)
    /\ pidTaken[PID_FILE.text] = "no"
    /\ pidTaken' = [pidTaken EXCEPT ![PID_FILE.text] = u]
    /\ UNCHANGED <<ipc_pc, PID_FILE, SOCKET_FILE, lpid, lst, inbox, devWrote,
                   wrotePid, boundSock, sentMsgs, lstable, foundStale>>

\* the IPC part of the state while another component is under study
IPCIdle ==
    /\ ipc_pc = [p \in Procs |-> "idle"]
    /\ PID_FILE = NoPidFile
    /\ SOCKET_FILE = NoSocket
    /\ lpid = [p \in Procs |-> 0]
    /\ pidTaken = [p \in Procs |-> "no"]
    /\ lst = [p \in Procs |-> "none"]
    /\ inbox = [p \in Procs |-> <<>>]
    /\ devWrote = {}
    /\ wrotePid = {}
    /\ boundSock = {}
    /\ sentMsgs = [p \in Procs |-> <<>>]
    /\ lstable = {}
    /\ foundStale = {}

IFrame == UNCHANGED <<engVars, devicePresent, dmnVars, live, app, win, ui,
                    br, col, lq, lu, rp, cy, rb, pt, wd, cli, dm>>

NextIPC ==
    \/ IFrame /\ \E p \in Procs : Launch(p)
    \/ IFrame /\ \E p \in Procs : L_Exists(p)
    \/ IFrame /\ \E p \in Procs : L_Read(p)
    \/ IFrame /\ \E p \in Procs : L_Kill(p)
    \/ IFrame /\ \E p \in Procs : L_Connect(p)
    \/ IFrame /\ \E p \in Procs : L_Send(p)
    \/ IFrame /\ \E p \in Procs : L_Cleanup(p)
    \/ IFrame /\ \E p \in Procs : I_OpenPid(p)
    \/ IFrame /\ \E p \in Procs : I_WritePid(p)
    \/ IFrame /\ \E p \in Procs : I_Bind(p)
    \/ IFrame /\ \E p \in Procs : DevWrite(p)
    \/ IFrame /\ \E m \in Messages : EnvSend(m)
    \/ IFrame /\ \E q \in Procs : Lst_Handle(q)
    \/ IFrame /\ \E q \in Procs : Quit(q)
    \/ IFrame /\ \E q \in Procs : Crash(q)
    \/ IFrame /\ \E u \in {"same_user", "other_user"} : PidReuse(u)

InitIPC == EngineIdle /\ devicePresent = TRUE /\ DaemonIdle /\ IPCIdle /\ LiveIdle /\ AppIdle
    /\ WindowIdle
    /\ IntegratedIdle
    /\ BreathingIdle
    /\ ColorIdle
    /\ LogIdle
    /\ LiveUpdateIdle
    /\ RippleIdle
    /\ CycleIdle
    /\ RainbowIdle
    /\ PatternIdle
    /\ WatchdogIdle
    /\ CliIdle
    /\ DaemonsIdle

SpecIPC == InitIPC /\ [][NextIPC]_vars

\* a process is started while another one is between its launch and running
LaunchBeside(p) ==
    /\ ipc_pc[p] = "idle"
    /\ \A q \in Procs : q < p => ipc_pc[q] # "idle"
    /\ ~LaunchSerial(p)
    /\ ipc_pc' = [ipc_pc EXCEPT ![p] = "l_exists"]
    /\ lstable' = IF LiveFirst THEN lstable \cup {p} ELSE lstable
    /\ UNCHANGED <<PID_FILE, SOCKET_FILE, lpid, pidTaken, lst, inbox, devWrote, wrotePid,
                   boundSock, sentMsgs, foundStale>>

\* the launchers and the instances alone: launches may overlap, no other
\* client writes to the socket, no process is killed
NextRace ==
    \/ IFrame /\ \E p \in Procs : Launch(p)
    \/ IFrame /\ \E p \in Procs : LaunchBeside(p)
    \/ IFrame /\ \E p \in Procs : L_Exists(p)
    \/ IFrame /\ \E p \in Procs : L_Read(p)
    \/ IFrame /\ \E p \in Procs : L_Kill(p)
    \/ IFrame /\ \E p \in Procs : L_Connect(p)
    \/ IFrame /\ \E p \in Procs : L_Send(p)
    \/ IFrame /\ \E p \in Procs : L_Cleanup(p)
    \/ IFrame /\ \E p \in Procs : I_OpenPid(p)
    \/ IFrame /\ \E p \in Procs : I_WritePid(p)
    \/ IFrame /\ \E p \in Procs : I_Bind(p)
    \/ IFrame /\ \E q \in Procs : Lst_Handle(q)
    \/ IFrame /\ \E q \in Procs : Quit(q)

SpecRace == InitIPC /\ [][NextRace]_vars

(***************************************************************************)
(* Specifications                                                          *)
(***************************************************************************)
DFrame == UNCHANGED <<engVars, devicePresent, ipcVars, live, app, win, ui,
                    br, col, lq, lu, rp, cy, rb, pt, wd, cli, dm>>

NextDaemon ==
    \/ DFrame /\ Tick
    \/ DFrame /\ \E r \in Records : W_Open(r)
    \/ DFrame /\ W_Close
    \/ DFrame /\ SigDeliver
    \/ DFrame /\ H_Set
    \/ DFrame /\ M_WritePid
    \/ DFrame /\ M_Load
    \/ DFrame /\ M_StartWatch
    \/ DFrame /\ M_LoopExit
    \/ DFrame /\ M_JoinWatch
    \/ DFrame /\ M_JoinWatchTimeout
    \/ DFrame /\ M_Finally
    \/ DFrame /\ P_Check
    \/ DFrame /\ P_Stat
    \/ DFrame /\ P_Load
    \/ DFrame /\ P_Wake
    \/ DFrame /\ \E c \in Callers : SA_Begin(c)
    \/ DFrame /\ \E c \in Callers : SA_JoinCall(c)
    \/ DFrame /\ \E c \in Callers : SA_JoinReturn(c)
    \/ DFrame /\ \E c \in Callers : SA_JoinTimedOut(c)
    \/ DFrame /\ \E c \in Callers : SA_Clear(c)
    \/ DFrame /\ \E c \in Callers : ST_Style(c)
    \/ DFrame /\ \E c \in Callers : ST_Clear(c)
    \/ DFrame /\ \E c \in Callers : ST_Spawn(c)
    \/ DFrame /\ \E w \in DWorkerIds : DW_Init(w)
    \/ DFrame /\ \E w \in DWorkerIds : DW_Check(w)
    \/ DFrame /\ \E w \in DWorkerIds : DW_Write(w)
    \/ DFrame /\ \E w \in DWorkerIds : DW_Wake(w)

\* the daemon with its device node present
DaemonStart == EngineIdle /\ devicePresent = TRUE /\ InitDaemon /\ IPCIdle /\ LiveIdle /\ AppIdle
    /\ WindowIdle
    /\ IntegratedIdle
    /\ BreathingIdle
    /\ ColorIdle
    /\ LogIdle
    /\ LiveUpdateIdle
    /\ RippleIdle
    /\ CycleIdle
    /\ RainbowIdle
    /\ PatternIdle
    /\ WatchdogIdle
    /\ CliIdle
    /\ DaemonsIdle

SpecDaemon == DaemonStart /\ [][NextDaemon]_vars

\* thread scheduling is fair: a thread that can take a step takes one; the
\* writer, the clock, the device and the signal are the environment's
FairSpecDaemon ==
    /\ SpecDaemon
    /\ WF_vars(DFrame /\ MainStep)
    /\ WF_vars(DFrame /\ SigStep)
    /\ WF_vars(DFrame /\ PollerStep)
    /\ \A w \in DWorkerIds : WF_vars(DFrame /\ DWorkerStep(w))

EFrame == UNCHANGED <<dmnVars, ipcVars, live, app, win, ui,
                    br, col, lq, lu, rp, cy, rb, pt, wd, cli, dm>>

NextEngine ==
    \/ EFrame /\ \E s \in Styles, i \in Intervals : CallStart(s, i)
    \/ EFrame /\ CallStop
    \/ EFrame /\ JoinReturn
    \/ EFrame /\ JoinTimedOut
    \/ EFrame /\ StartClear
    \/ EFrame /\ StartDispatch
    \/ EFrame /\ \E w \in WorkerIds : WorkerInit(w)
    \/ EFrame /\ \E w \in WorkerIds : WorkerCheck(w)
    \/ EFrame /\ \E w \in WorkerIds : WorkerWrite(w)
    \/ EFrame /\ \E w \in WorkerIds : WorkerWake(w)
    \/ EFrame /\ DeviceToggle

InitEngine == EngineIdle /\ devicePresent = TRUE /\ DaemonIdle /\ IPCIdle /\ LiveIdle /\ AppIdle
    /\ WindowIdle
    /\ IntegratedIdle
    /\ BreathingIdle
    /\ ColorIdle
    /\ LogIdle
    /\ LiveUpdateIdle
    /\ RippleIdle
    /\ CycleIdle
    /\ RainbowIdle
    /\ PatternIdle
    /\ WatchdogIdle
    /\ CliIdle
    /\ DaemonsIdle

SpecEngine == InitEngine /\ [][NextEngine]_vars

LFrame == UNCHANGED <<engVars, dmnVars, ipcVars, app, win, ui,
                    br, col, lq, lu, rp, cy, rb, pt, wd, cli, dm>>

NextLive ==
    \/ LFrame /\ \E v \in LiveValues : LS_Queue(v)
    \/ LFrame /\ LS_Flush
    \/ LFrame /\ LS_Unplug
    \/ LFrame /\ LS_Replug

InitLive == EngineIdle /\ devicePresent = TRUE /\ DaemonIdle /\ IPCIdle /\ InitLiveSender /\ AppIdle
    /\ WindowIdle
    /\ IntegratedIdle
    /\ BreathingIdle
    /\ ColorIdle
    /\ LogIdle
    /\ LiveUpdateIdle
    /\ RippleIdle
    /\ CycleIdle
    /\ RainbowIdle
    /\ PatternIdle
    /\ WatchdogIdle
    /\ CliIdle
    /\ DaemonsIdle

SpecLive == InitLive /\ [][NextLive]_vars

\* the timer keeps ticking and an unplugged keyboard is plugged in again
FairSpecLive ==
    /\ SpecLive
    /\ WF_vars(LFrame /\ LS_Flush)
    /\ WF_vars(LFrame /\ LS_Replug)

KFrame == UNCHANGED <<engVars, dmnVars, ipcVars, live, win, ui,
                    br, col, lq, lu, rp, cy, rb, pt, wd, cli, dm>>

NextApp ==
    \/ KFrame /\ \E s \in KStyles, c \in KColors, ivl \in KIntervals, i \in KIntensities :
                   K_CallStart(s, c, ivl, i)
    \/ KFrame /\ \E then \in {"none", "off", "save"} : K_CallStop(then)
    \/ KFrame /\ K_StopBegin
    \/ KFrame /\ K_JoinReturn
    \/ KFrame /\ K_JoinTimedOut
    \/ KFrame /\ K_StopTail
    \/ KFrame /\ K_StartBody
    \/ KFrame /\ \E c \in KColors, i \in KIntensities : K_LiveUpdate(c, i)
    \/ KFrame /\ \E w \in KWorkerIds : KW_Init(w)
    \/ KFrame /\ \E w \in KWorkerIds : KW_Outer(w)
    \/ KFrame /\ \E w \in KWorkerIds : KW_Inner(w)
    \/ KFrame /\ \E w \in KWorkerIds : KW_Wake(w)
    \/ KFrame /\ K_DeviceToggle

AppStart == EngineIdle /\ devicePresent = TRUE /\ DaemonIdle /\ IPCIdle /\ LiveIdle /\ InitApp
    /\ WindowIdle
    /\ IntegratedIdle
    /\ BreathingIdle
    /\ ColorIdle
    /\ LogIdle
    /\ LiveUpdateIdle
    /\ RippleIdle
    /\ CycleIdle
    /\ RainbowIdle
    /\ PatternIdle
    /\ WatchdogIdle
    /\ CliIdle
    /\ DaemonsIdle

SpecApp == AppStart /\ [][NextApp]_vars

WFrame == UNCHANGED <<dmnVars, ipcVars, live, app, ui,
                    br, col, lq, lu, rp, cy, rb, pt, wd, cli, dm>>

NextWindow ==
    \/ WFrame /\ \E s \in Styles, i \in Intervals : W_ApplyLighting(s, i)
    \/ WFrame /\ W_StopAnimation
    \/ WFrame /\ W_JoinReturn
    \/ WFrame /\ W_JoinTimedOut
    \/ WFrame /\ W_StartClear
    \/ WFrame /\ W_StartDispatch
    \/ WFrame /\ \E c \in KColors : W_WheelChanged(c)
    \/ WFrame /\ \E i \in KIntensities : W_ValueChanged(i)
    \/ WFrame /\ \E w \in WorkerIds : W_WorkerInit(w)
    \/ WFrame /\ \E w \in WorkerIds : W_WorkerCheck(w)
    \/ WFrame /\ \E w \in WorkerIds : W_WorkerWrite(w)
    \/ WFrame /\ \E w \in WorkerIds : W_WorkerWake(w)
    \/ WFrame /\ W_DeviceToggle

WindowStart ==
    EngineIdle /\ devicePresent = TRUE /\ DaemonIdle /\ IPCIdle /\ LiveIdle /\ AppIdle
        /\ InitWindow
    /\ IntegratedIdle
    /\ BreathingIdle
    /\ ColorIdle
    /\ LogIdle
    /\ LiveUpdateIdle
    /\ RippleIdle
    /\ CycleIdle
    /\ RainbowIdle
    /\ PatternIdle
    /\ WatchdogIdle
    /\ CliIdle
    /\ DaemonsIdle

SpecWindow == WindowStart /\ [][NextWindow]_vars

UFrame == UNCHANGED <<engVars, dmnVars, ipcVars, live, app, win,
                    br, col, lq, lu, rp, cy, rb, pt, wd, cli, dm>>

NextIntegrated ==
    \/ UFrame /\ \E b \in BOOLEAN : U_DaemonModeChanged(b)
    \/ UFrame /\ \E c \in UColors : U_PickColor(c)
    \/ UFrame /\ \E v \in UIntensities : U_BrightnessChanged(v)
    \/ UFrame /\ \E n \in PresetNames : U_ApplyPreset(n)
    \/ UFrame /\ \E s \in UStyles, v \in USliderSpeeds : U_ApplyLighting(s, v)
    \/ UFrame /\ U_StopAnimation
    \/ UFrame /\ U_DeviceToggle

IntegratedStart ==
    EngineIdle /\ devicePresent = TRUE /\ DaemonIdle /\ IPCIdle /\ LiveIdle /\ AppIdle
        /\ WindowIdle /\ InitIntegrated
    /\ BreathingIdle
    /\ ColorIdle
    /\ LogIdle
    /\ LiveUpdateIdle
    /\ RippleIdle
    /\ CycleIdle
    /\ RainbowIdle
    /\ PatternIdle
    /\ WatchdogIdle
    /\ CliIdle
    /\ DaemonsIdle

SpecIntegrated == IntegratedStart /\ [][NextIntegrated]_vars

BFrame == UNCHANGED <<engVars, dmnVars, ipcVars, live, app, win, ui, col, lq, lu, rp, cy, rb,
                    pt, wd, cli, dm>>

NextBreathing ==
    \/ BFrame /\ B_Init
    \/ BFrame /\ B_Outer
    \/ BFrame /\ B_Inner
    \/ BFrame /\ B_Write
    \/ BFrame /\ B_Wake
    \/ BFrame /\ B_Stop
    \/ BFrame /\ B_DeviceToggle

BreathingStart ==
    EngineIdle /\ devicePresent = TRUE /\ DaemonIdle /\ IPCIdle /\ LiveIdle /\ AppIdle
        /\ WindowIdle /\ IntegratedIdle /\ InitBreathing
    /\ ColorIdle
    /\ LogIdle
    /\ LiveUpdateIdle
    /\ RippleIdle
    /\ CycleIdle
    /\ RainbowIdle
    /\ PatternIdle
    /\ WatchdogIdle
    /\ CliIdle
    /\ DaemonsIdle

SpecBreathing == BreathingStart /\ [][NextBreathing]_vars

CFrame == UNCHANGED <<engVars, dmnVars, ipcVars, live, app, win, ui,
                      br, lq, lu, rp, cy, rb, pt, wd, cli, dm>>

NextColor ==
    \/ CFrame /\ \E impl \in ColorImpls : C_SetColor(impl)
    \/ CFrame /\ C_DeviceToggle

ColorStart ==
    EngineIdle /\ devicePresent = TRUE /\ DaemonIdle /\ IPCIdle /\ LiveIdle /\ AppIdle
        /\ WindowIdle /\ IntegratedIdle /\ BreathingIdle /\ InitColor
    /\ LogIdle
    /\ LiveUpdateIdle
    /\ RippleIdle
    /\ CycleIdle
    /\ RainbowIdle
    /\ PatternIdle
    /\ WatchdogIdle
    /\ CliIdle
    /\ DaemonsIdle

SpecColor == ColorStart /\ [][NextColor]_vars

QFrame == UNCHANGED <<engVars, devicePresent, dmnVars, ipcVars, live, app, win, ui, br, col,
                    lu, rp, cy, rb, pt, wd, cli, dm>>

NextLog ==
    \/ QFrame /\ L_Emit
    \/ QFrame /\ L_Evict
    \/ QFrame /\ L_PutAgain
    \/ QFrame /\ L_Get

LogStart ==
    EngineIdle /\ devicePresent = TRUE /\ DaemonIdle /\ IPCIdle /\ LiveIdle /\ AppIdle
        /\ WindowIdle /\ IntegratedIdle /\ BreathingIdle /\ ColorIdle /\ InitLog
    /\ LiveUpdateIdle
    /\ RippleIdle
    /\ CycleIdle
    /\ RainbowIdle
    /\ PatternIdle
    /\ WatchdogIdle
    /\ CliIdle
    /\ DaemonsIdle

SpecLog == LogStart /\ [][NextLog]_vars

VFrame == UNCHANGED <<engVars, devicePresent, dmnVars, ipcVars, live, app, win, ui, br, col,
                      lq, rp, cy, rb, pt, wd, cli, dm>>

NextLiveUpdate ==
    \/ VFrame /\ \E c \in KColors : LU_UpdateColor(c)
    \/ VFrame /\ \E i \in KIntensities : LU_UpdateIntensity(i)
    \/ VFrame /\ \E ivl \in KIntervals : LU_UpdateInterval(ivl)
    \/ VFrame /\ LU_StopBegin
    \/ VFrame /\ LU_StopEnd
    \/ VFrame /\ LU_Outer
    \/ VFrame /\ LU_Step
    \/ VFrame /\ LU_Write
    \/ VFrame /\ LU_Wake

LiveUpdateStart ==
    EngineIdle /\ devicePresent = TRUE /\ DaemonIdle /\ IPCIdle /\ LiveIdle /\ AppIdle
        /\ WindowIdle /\ IntegratedIdle /\ BreathingIdle /\ ColorIdle /\ LogIdle
        /\ InitLiveUpdate
    /\ RippleIdle
    /\ CycleIdle
    /\ RainbowIdle
    /\ PatternIdle
    /\ WatchdogIdle
    /\ CliIdle
    /\ DaemonsIdle

SpecLiveUpdate == LiveUpdateStart /\ [][NextLiveUpdate]_vars

RFrame == UNCHANGED <<engVars, dmnVars, ipcVars, live, app, win, ui, br, col, lq, lu, cy, rb,
                    pt, wd, cli, dm>>

NextRipple ==
    \/ RFrame /\ R_Init
    \/ RFrame /\ R_Round
    \/ RFrame /\ R_Stop

RippleStart ==
    EngineIdle /\ devicePresent = TRUE /\ DaemonIdle /\ IPCIdle /\ LiveIdle /\ AppIdle
        /\ WindowIdle /\ IntegratedIdle /\ BreathingIdle /\ ColorIdle /\ LogIdle
        /\ LiveUpdateIdle /\ InitRipple
    /\ CycleIdle
    /\ RainbowIdle
    /\ PatternIdle
    /\ WatchdogIdle
    /\ CliIdle
    /\ DaemonsIdle

SpecRipple == RippleStart /\ [][NextRipple]_vars

RippleTickStart ==
    EngineIdle /\ devicePresent = TRUE /\ DaemonIdle /\ IPCIdle /\ LiveIdle /\ AppIdle
        /\ WindowIdle /\ IntegratedIdle /\ BreathingIdle /\ ColorIdle /\ LogIdle
        /\ LiveUpdateIdle /\ InitRippleTick
    /\ CycleIdle
    /\ RainbowIdle
    /\ PatternIdle
    /\ WatchdogIdle
    /\ CliIdle
    /\ DaemonsIdle

SpecRippleTick == RippleTickStart /\ [][NextRipple]_vars

YFrame == UNCHANGED <<engVars, devicePresent, dmnVars, ipcVars, live, app, win, ui, br, col,
                      lq, lu, rp, rb, pt, wd, cli, dm>>

NextCycle ==
    \/ YFrame /\ Y_Write
    \/ YFrame /\ Y_Wake

CycleStart ==
    EngineIdle /\ devicePresent = TRUE /\ DaemonIdle /\ IPCIdle /\ LiveIdle /\ AppIdle
        /\ WindowIdle /\ IntegratedIdle /\ BreathingIdle /\ ColorIdle /\ LogIdle
        /\ LiveUpdateIdle /\ RippleIdle /\ InitCycle
    /\ RainbowIdle
    /\ PatternIdle
    /\ WatchdogIdle
    /\ CliIdle
    /\ DaemonsIdle

SpecCycle == CycleStart /\ [][NextCycle]_vars

NFrame == UNCHANGED <<engVars, devicePresent, dmnVars, ipcVars, live, app, win, ui, br, col,
                      lq, lu, rp, cy, pt, wd, cli, dm>>

NextRainbow ==
    \/ NFrame /\ N_Check
    \/ NFrame /\ N_Write
    \/ NFrame /\ N_Wake
    \/ NFrame /\ N_Stop

RainbowStart ==
    EngineIdle /\ devicePresent = TRUE /\ DaemonIdle /\ IPCIdle /\ LiveIdle /\ AppIdle
        /\ WindowIdle /\ IntegratedIdle /\ BreathingIdle /\ ColorIdle /\ LogIdle
        /\ LiveUpdateIdle /\ RippleIdle /\ CycleIdle /\ InitRainbow
    /\ PatternIdle
    /\ WatchdogIdle
    /\ CliIdle
    /\ DaemonsIdle

SpecRainbow == RainbowStart /\ [][NextRainbow]_vars

PFrame == UNCHANGED <<engVars, devicePresent, dmnVars, ipcVars, live, app, win, ui, br, col,
                      lq, lu, rp, cy, rb, wd, cli, dm>>

\* the steps of the worker thread
PatternWorker ==
    \/ PFrame /\ P_Init
    \/ PFrame /\ P_While
    \/ PFrame /\ P_For
    \/ PFrame /\ P_Write
    \/ PFrame /\ P_Post
    \/ PFrame /\ P_Sleep
    \/ PFrame /\ P_Mid

NextPattern ==
    \/ PatternWorker
    \/ PFrame /\ P_Stop

PatternStart ==
    EngineIdle /\ devicePresent = TRUE /\ DaemonIdle /\ IPCIdle /\ LiveIdle /\ AppIdle
        /\ WindowIdle /\ IntegratedIdle /\ BreathingIdle /\ ColorIdle /\ LogIdle
        /\ LiveUpdateIdle /\ RippleIdle /\ CycleIdle /\ RainbowIdle /\ InitPattern
    /\ WatchdogIdle
    /\ CliIdle
    /\ DaemonsIdle

\* the worker is a running thread: its sleeps end and its next statement runs
SpecPattern == PatternStart /\ [][NextPattern]_vars /\ WF_vars(PatternWorker)

TFrame == UNCHANGED <<engVars, devicePresent, dmnVars, ipcVars, live, app, win, ui, br, col,
                      lq, lu, rp, cy, rb, pt, cli, dm>>

NextWatchdog ==
    \/ TFrame /\ T_Tick
    \/ TFrame /\ G_Heartbeat
    \/ TFrame /\ G_Apply
    \/ TFrame /\ G_Close
    \/ TFrame /\ D_Check
    \/ TFrame /\ D_Wake

WatchdogStart ==
    EngineIdle /\ devicePresent = TRUE /\ DaemonIdle /\ IPCIdle /\ LiveIdle /\ AppIdle
        /\ WindowIdle /\ IntegratedIdle /\ BreathingIdle /\ ColorIdle /\ LogIdle
        /\ LiveUpdateIdle /\ RippleIdle /\ CycleIdle /\ RainbowIdle /\ PatternIdle
        /\ InitWatchdog
    /\ CliIdle
    /\ DaemonsIdle

SpecWatchdog == WatchdogStart /\ [][NextWatchdog]_vars

XFrame == UNCHANGED <<engVars, devicePresent, dmnVars, ipcVars, live, app, win, ui, br, col,
                      lq, lu, rp, cy, rb, pt, wd, dm>>

NextCli ==
    \/ XFrame /\ X_Start
    \/ XFrame /\ X_Exit
    \/ XFrame /\ X_Shutdown
    \/ XFrame /\ X_Breathe

CliStart ==
    EngineIdle /\ devicePresent = TRUE /\ DaemonIdle /\ IPCIdle /\ LiveIdle /\ AppIdle
        /\ WindowIdle /\ IntegratedIdle /\ BreathingIdle /\ ColorIdle /\ LogIdle
        /\ LiveUpdateIdle /\ RippleIdle /\ CycleIdle /\ RainbowIdle /\ PatternIdle
        /\ WatchdogIdle /\ InitCli
    /\ DaemonsIdle

\* the main thread and the breathing thread both run
SpecCli == CliStart /\ [][NextCli]_vars
               /\ WF_vars(XFrame /\ (X_Start \/ X_Exit \/ X_Shutdown))
               /\ WF_vars(XFrame /\ X_Breathe)

OFrame == UNCHANGED <<engVars, devicePresent, dmnVars, ipcVars, live, app, win, ui, br, col,
                      lq, lu, rp, cy, rb, pt, wd, cli>>

NextDaemons ==
    \/ OFrame /\ F_Tick
    \/ OFrame /\ \E r \in DRecords : F_Write(r)
    \/ OFrame /\ \E p \in DaemonPids : O_Start(p)
    \/ OFrame /\ \E p \in DaemonPids : O_WritePid(p)
    \/ OFrame /\ \E p \in DaemonPids : O_Load(p)
    \/ OFrame /\ \E p \in DaemonPids : O_StartWatch(p)
    \/ OFrame /\ \E p \in DaemonPids : O_Poll(p)
    \/ OFrame /\ \E p \in DaemonPids : O_Shutdown(p)

DaemonsStart ==
    EngineIdle /\ devicePresent = TRUE /\ DaemonIdle /\ IPCIdle /\ LiveIdle /\ AppIdle
        /\ WindowIdle /\ IntegratedIdle /\ BreathingIdle /\ ColorIdle /\ LogIdle
        /\ LiveUpdateIdle /\ RippleIdle /\ CycleIdle /\ RainbowIdle /\ PatternIdle
        /\ WatchdogIdle /\ CliIdle /\ InitDaemons

SpecDaemons == DaemonsStart /\ [][NextDaemons]_vars

(***************************************************************************)
(* Claims about the AnimationController (checked under SpecEngine)         *)
(***************************************************************************)
Spawned == 1..nspawn

\* C1 (as stated): at most one worker thread created by the engine is alive,
\* also after a start() or stop() whose bounded join timed out.
C1_AtMostOneWorkerAlive ==
    Cardinality(AliveWorkers) <= 1

\* C1 (amended): every live worker is either the engine's handle or a worker
\* whose bounded join timed out; so at most one live worker is not an orphan.
C1_OnlyOrphansBesideHandle ==
    /\ \A w \in AliveWorkers : w = thread \/ w \in orphaned
    /\ Cardinality(AliveWorkers \ orphaned) <= 1

\* an orphan of a timed-out join and the superseding worker alive together
C1_Witness ==
    \E a, b \in Spawned :
        /\ a # b
        /\ a \in orphaned /\ Alive(a)
        /\ thread = b /\ Alive(b)

\* C2: a worker orphaned by a timed-out join exits at its next test of the
\* stop flag, so once it has tested the flag after its stop request it is dead.
C2_OrphanExitsAtNextCheck ==
    \A w \in orphaned : w \in checkedAfterStop => ~Alive(w)

\* C3: once worker b has written, every earlier worker a either had its stop
\* flag set by stop() or had ended by itself, and unless a's join timed out a
\* is dead, so a issues no write after b's first one.
C3_OldStoppedBeforeNewWrites ==
    \A a, b \in Spawned :
        (a < b /\ b \in wrote) =>
            /\ a \in stopReq \/ wk[a].pc = "failed"
            /\ a \notin orphaned => ~Alive(a)

\* worker a wrote, was stopped by start(b) with a successful join, then b wrote
C3_Witness ==
    \E a, b \in Spawned :
        /\ a < b
        /\ a \in wrote /\ b \in wrote
        /\ a \in stopReq /\ a \notin orphaned
        /\ wk[a].pc = "stopped"

(***************************************************************************)
(* Claims about the daemon (checked under SpecDaemon / FairSpecDaemon)     *)
(***************************************************************************)
PollerPc == proc["poller"].pc
MainPc == proc["main"].pc

\* C4: before shutdown, a parseable record completed after the poller's last
\* read, with an mtime other than the last one seen, gets a next poll tick that
\* applies it; so while such a record waits and no signal has arrived, the
\* poll loop has not ended.
C4_FreshRecordGetsATick ==
    (~Signalled /\ LoadOk /\ unread /\ sf.mtime # last_mtime) => PollerPc # "exited"

Quiescent ==
    /\ DAliveWorkers = {}
    /\ PollerPc \in {"unborn", "exited"}
    /\ ~pidFile

\* C5: after SIGTERM/SIGINT the daemon eventually reaches a state with no worker
\* alive, the poller stopped and the PID file removed.
C5_ShutdownQuiesces ==
    Signalled ~> Quiescent

\* C6: a poll tick that follows a failed read of the file reads the file again
\* once the writer has completed the record, whatever its mtime.
C6_FailedReadIsRetried ==
    [][ (PollerPc = "p_stat" /\ proc'["poller"].pc # "p_stat" /\ retryOwed /\ LoadOk)
            => proc'["poller"].pc = "p_load" ]_vars

\* C7: a missing or unparseable state file is no change: the step that finds it
\* (the poller's exists() test, the poller's or the startup's load_state) calls
\* no start_animation, leaves the flag, the handle and every worker as they
\* are, and ends neither the poller nor the main thread.
C7_BadFileIsNoChange ==
    [][ /\ (PollerPc = "p_load" /\ proc'["poller"].pc # "p_load" /\ ~LoadOk)
            => /\ proc'["poller"].pc = "p_sleep"
               /\ proc'["main"] = proc["main"]
               /\ UNCHANGED <<animVars, pidFile, running>>
        /\ (PollerPc = "p_stat" /\ proc'["poller"].pc # "p_stat" /\ ~sf.exists)
            => /\ proc'["poller"].pc = "p_sleep"
               /\ proc'["main"] = proc["main"]
               /\ UNCHANGED <<animVars, pidFile, running>>
        /\ (MainPc = "m_load" /\ proc'["main"].pc # "m_load" /\ ~LoadOk)
            => /\ proc'["main"].pc = "m_watch"
               /\ proc'["poller"] = proc["poller"]
               /\ UNCHANGED <<animVars, pidFile, running>> ]_vars

\* the poller has just skipped an unparseable file while an animation runs
C7_Witness ==
    /\ retryOwed
    /\ PollerPc = "p_sleep"
    /\ ~Signalled
    /\ animation_thread # 0 /\ DAlive(animation_thread)
    /\ dwk[animation_thread].pc = "sleep_on"

(***************************************************************************)
(* Claims about single-instance launch and the listener (under SpecIPC)    *)
(***************************************************************************)
\* C8: a launcher that runs while a first instance is alive and its socket
\* accepts connections writes nothing to the device, writes no PID file, binds
\* no socket, and when it has exited it has sent exactly one message, "show".
C8_SecondInstanceOnlyForwards ==
    \A p \in lstable :
        /\ ipc_pc[p] \in (LaunchPcs \ {"l_cleanup"}) \cup {"forwarded"}
        /\ p \notin devWrote
        /\ p \notin wrotePid
        /\ p \notin boundSock
        /\ sentMsgs[p] = IF ipc_pc[p] = "forwarded" THEN <<ShowMsg>> ELSE <<>>

\* C9: no inbound message ends the listener loop: while an instance runs, its
\* listener keeps accepting connections.
C9_ListenerSurvivesMessages ==
    \A q \in Procs : ipc_pc[q] = "running" => lst[q] = "accepting"

\* C10: a launcher that found a PID file naming a process that is gone, or
\* holding no integer, never gives up; its cleanup deletes the PID file and
\* the socket, and when it starts running the PID file holds its own pid and
\* it listens on the socket.
C10_StaleLeaseReclaimed ==
    [][ \A p \in Procs : p \in foundStale' =>
          /\ ipc_pc'[p] \notin {"forwarded", "l_failed"}
          /\ (ipc_pc[p] = "l_cleanup" /\ ipc_pc'[p] # "l_cleanup")
                => PID_FILE' = NoPidFile /\ SOCKET_FILE' = NoSocket
          /\ (ipc_pc[p] # "running" /\ ipc_pc'[p] = "running")
                => /\ PID_FILE' = [exists |-> TRUE, text |-> p]
                   /\ SOCKET_FILE' = [exists |-> TRUE, owner |-> p]
                   /\ lst'[p] = "accepting" ]_vars

(***************************************************************************)
(* Claims about LiveSender (checked under SpecLive / FairSpecLive)         *)
(***************************************************************************)
SetReports(s) == {k \in 1..Len(s) : s[k].op = "set"}

\* C11: with the timer ticking, the value queued last is eventually the
\* value the device accepted from a successful setColor, although ticks
\* before found the device missing or had their report refused.
C11_LastQueuedDelivered ==
    \A v \in LiveValues : (live.pending = v) ~> (live.dev = v \/ live.pending # v)

\* C12: a tick issues at most one setColor however many queue() calls came
\* since the tick before, the setColor carries the value queued last, and a
\* tick whose latest value is the value of the last setColor sent issues no
\* report at all.
C12_OneWritePerTick ==
    [][live'.tick # live.tick =>
         /\ Cardinality(SetReports(live'.writes)) <= 1
         /\ \A k \in SetReports(live'.writes) : live'.writes[k].val = live.pending
         /\ live.pending = live.sent => live'.writes = <<>>]_vars

\* a burst of queue() calls was coalesced into one tick with one setColor
C12_Witness ==
    /\ live.coalesced >= 2
    /\ live.burst = 0
    /\ Cardinality(SetReports(live.writes)) = 1
    /\ live.writes[2].val = live.pending

(***************************************************************************)
(* Claims about kbdrgb.py's AnimationController (checked under SpecApp)    *)
(***************************************************************************)
\* the latest stop() has returned (to its caller, or into start())
KStopReturned ==
    \/ app.call.pc = "start_body"
    \/ app.call.pc = "idle" /\ app.call.op = "stop"

\* C15: stop() on an engine with no worker running issues no device write
\* and leaves the engine idle (no exception is modelled: none can occur).
C15_StopOnIdleIsNoOp ==
    (app.call.pc = "idle" /\ app.call.op = "stop" /\ app.call.then = "none" /\ app.call.idle)
        => (app.log = <<>> /\ KNoWorker)

\* C16: when stop() has returned, the worker handle is cleared, whether the
\* join succeeded or timed out.
C16_StopClearsHandle == KStopReturned => app.thread = 0

(***************************************************************************)
(* Claims about the archive window and its engine (under SpecWindow)       *)
(***************************************************************************)
\* C13: while a worker thread of the engine is alive, no callback of the
\* GUI thread issues a report: every report of a callback was issued with
\* no worker alive.
C13_NoAdhocWriteBesideWorker ==
    \A k \in 1..Len(win.log) : ~win.log[k].beside

\* C17: the dispatch of a static start requested on an idle engine, with the
\* device present, issues one disableAutonomous and then one setColor with
\* the requested colour, the requested intensity and the range 0..100, and
\* creates no worker.
C17_StaticStartWritesOnce ==
    [][(ctl.pc = "dispatch" /\ ctl'.pc = "idle" /\ ctl.style = "static"
            /\ win.req.op = "apply" /\ win.req.idle /\ devicePresent)
         => /\ Len(win'.log) = 2
            /\ win'.log[1].op = "disable"
            /\ win'.log[2].op = "set"
            /\ win'.log[2].data = <<1, 0, 0, 100, 0, win.color[1], win.color[2], win.color[3],
                                  win.intensity>>
            /\ nspawn' = nspawn]_vars

\* C18: after the stop() meant for a flash worker has returned, that worker
\* issues at most one more device write.
C18_AtMostOneWriteAfterStop ==
    \A w \in WorkerIds : win.post[w] <= 1

(***************************************************************************)
(* Claims about the integrated window (checked under SpecIntegrated)       *)
(***************************************************************************)
\* C14: a callback that ran in daemon mode (pick colour, brightness, preset,
\* apply, stop) issued no report to the device; what it changed outside the
\* window is at most the daemon state file.
C14_DaemonModeWritesNoDevice ==
    (ui.op.daemon /\ ui.op.op \in {"pick_color", "brightness", "preset", "apply", "stop"})
        => ui.log = <<>>

\* an apply in daemon mode that rewrote the state file with an animation
C14_Witness ==
    /\ ui.op = [op |-> "apply", daemon |-> TRUE]
    /\ ui.wrote
    /\ devicePresent
    /\ ui.file = <<StateRecord("Breathing", ui.color, ui.intensity, 300)>>
    /\ ui.log = <<>>

(***************************************************************************)
(* Claims about breathing() (checked under SpecBreathing)                  *)
(***************************************************************************)
\* C19: a set_color that fails while the pattern runs does not end the
\* worker: as long as the stop flag is not set, a worker that has seen a
\* failed write is still in its loop.
C19_FailedWriteKeepsWorker ==
    (br.fails > 0 /\ ~br.stop) => br.pc \notin BReturned

(***************************************************************************)
(* Claims about set_color (checked under SpecColor)                        *)
(***************************************************************************)
\* C20: for all integers r, g, b, i, also below 0 and above 255, set_color
\* raises nothing, and the payload it emits has min(255, max(0, x)) of each
\* of r, g, b, i in bytes 5..8, each clamped on its own.
C20_ChannelsClamped ==
    col.res.impl # "none" =>
        /\ ~col.res.raised
        /\ col.res.sent => \A k \in 1..4 : col.res.data[5 + k] = Max(0, Min(255, col.args[k]))

(***************************************************************************)
(* Claims about send_feature_report and the range of set_color (SpecColor) *)
(***************************************************************************)
\* the id set_color encodes for an argument: the default when none is given
IdUsed(id, default) == IF id = NoId THEN default ELSE id

\* C21: for every range (start, end) with 0 <= start, end < 65536 every
\* payload set_color emits has 9 bytes, byte 0 = 1 and bytes 1..4 =
\* start mod 256, start div 256, end mod 256, end div 256, and goes out
\* under report id 5; with no range given the range is (0, 100).
C21_RangeLittleEndian ==
    LET s == IdUsed(col.start_id, 0)
        e == IdUsed(col.end_id, 100)
        p == col.res.out.packet
    IN (col.res.out.attempts > 0 /\ s \in 0..65535 /\ e \in 0..65535) =>
         /\ Len(p) = 10
         /\ p[1] = 5
         /\ p[2] = 1
         /\ SubSeq(p, 3, 6) = <<s % 256, s \div 256, e % 256, e \div 256>>

\* archive set_color sent a range whose ids both need their high byte
C21_Witness ==
    /\ col.res.impl = "archive"
    /\ col.start_id = 256
    /\ col.end_id = 65535
    /\ col.res.out.ret
    /\ SubSeq(col.res.out.packet, 1, 6) = <<5, 1, 0, 1, 255, 255>>

\* C22: one call of send_feature_report makes at most one transmit attempt;
\* on a missing path it makes none and returns failure; when the transmit
\* fails it returns failure and has made that one attempt only.
C22_AtMostOneAttempt ==
    col.res.impl # "none" =>
        /\ col.res.out.attempts <= 1
        /\ ~devicePresent => (col.res.out.attempts = 0 /\ ~col.res.out.ret)
        /\ col.res.out.ioctl = "failed" => (col.res.out.attempts = 1 /\ ~col.res.out.ret)

\* a report whose ioctl failed, on an existing path
C22_Witness ==
    /\ devicePresent
    /\ col.res.impl = "kbdrgb"
    /\ col.res.out.ioctl = "failed"
    /\ col.res.out.attempts = 1
    /\ ~col.res.out.ret


(***************************************************************************)
(* Claims about the log queue (checked under SpecLog)                      *)
(***************************************************************************)
\* C23: the buffer never holds more than its capacity, and when an emit()
\* has returned the buffer ends with the line just logged and holds
\* consecutive lines in the order they were logged: on overflow the oldest
\* line went, not the newest.
C23_DropOldest ==
    /\ Len(lq.q) <= MaxLog
    /\ lq.op = "emit" =>
         /\ lq.q # <<>>
         /\ lq.q[Len(lq.q)] = lq.emitted
         /\ \A k \in 1..(Len(lq.q) - 1) : lq.q[k + 1] = lq.q[k] + 1
         /\ \A k \in 1..Len(lq.q), x \in lq.lost : x < lq.q[k]

(***************************************************************************)
(* Claims about breathing with live parameters (under SpecLiveUpdate)      *)
(***************************************************************************)
\* C24: after a change of colour, intensity or interval through
\* update_params the running thread makes at most the step it had begun with
\* the old values and every later step with the new ones; and the change
\* itself leaves the thread, the stop flag and the number of threads as
\* they were.
C24_LiveParamsNextStep ==
    /\ [](lu.stale <= 1)
    /\ [][lu'.params # lu.params =>
            /\ lu'.w = lu.w
            /\ lu'.stop_event = lu.stop_event
            /\ lu'.spawned = lu.spawned]_vars

\* one step was made with the old values after an update_params, and the
\* next step of the same cycle has taken the new colour and intensity
C24_Witness ==
    /\ lu.stale = 1
    /\ lu.w.pc = "write"
    /\ lu.w.k >= 1
    /\ lu.w.color = lu.params.color
    /\ lu.w.intensity = lu.params.intensity
    /\ lu.write # <<>>
    /\ lu.write[1] # lu.params.color
    /\ lu.spawned = 1
    /\ ~lu.stop_event

(***************************************************************************)
(* Claims about ripple (C25 under SpecRipple, C39 under SpecRippleTick)    *)
(***************************************************************************)
\* C25: in every state of a ripple run each segment's intensity is at least
\* the baseline 51 and at most 255, and so is every intensity that was
\* written to the device.
C25_RippleWithinBounds ==
    \A i \in Segments :
      /\ rp.led[i] \in 51..255
      /\ rp.pc \in {"loop", "done"} => rp.written[i] \in 51..255

\* a run of keystrokes has driven one segment to the cap
C25_Witness ==
    /\ rp.pc = "loop"
    /\ \E i \in Segments : rp.written[i] >= 253
    /\ rp.round >= 20

\* C39: every pass of the ripple loop writes every segment exactly once, in
\* index order, segment s over the LEDs 5s..5s+4 (ranges of different segments
\* do not meet) with the intensity the segment then has, whether or not the
\* pass had a keystroke; in a pass without a keystroke a segment above the
\* baseline goes down by 2 but not below the baseline, and a segment at the
\* baseline stays, so without keystrokes every segment reaches the baseline
\* after finitely many passes.
C39_RippleTick ==
    /\ [](rp.round > 0 =>
            /\ Len(rp.tick) = MaxLeds
            /\ \A s \in Segments :
                  rp.tick[s + 1] = <<5 * s, 5 * s + 4, rp.led[s]>>
            /\ \A s, t \in Segments :
                  s < t => rp.tick[s + 1][2] < rp.tick[t + 1][1])
    /\ [][(rp'.round # rp.round /\ rp'.key = <<>>) =>
            \A s \in Segments :
              /\ rp.led[s] > RIPPLE_BASE + 2 => rp'.led[s] = rp.led[s] - 2
              /\ rp.led[s] \in RIPPLE_BASE..(RIPPLE_BASE + 2) => rp'.led[s] = RIPPLE_BASE
              /\ rp.led[s] > RIPPLE_BASE => rp'.led[s] < rp.led[s]]_vars

\* a pass without a keystroke has written segments that are still above the
\* baseline
C39_Witness ==
    /\ rp.round >= 2
    /\ rp.key = <<>>
    /\ Len(rp.tick) = MaxLeds
    /\ \E s \in Segments : rp.tick[s + 1][3] > RIPPLE_BASE

(***************************************************************************)
(* Claims about the breathing cycle (checked under SpecCycle)              *)
(***************************************************************************)
\* C26: in a breathing cycle of N steps with target intensity T the
\* intensity written at k = 0 is 0, in the first cycle and in the next, and
\* the intensity written at k = N / 2 is T.
C26_PeakFollowsTarget ==
    cy.written # <<>> =>
        /\ cy.written[1] = 0 => cy.written[2] = 0
        /\ cy.written[1] = CycleSteps(cy.impl, cy.interval) \div 2
             => cy.written[2] = cy.target

(***************************************************************************)
(* Claims about the rainbow (checked under SpecRainbow)                    *)
(***************************************************************************)
\* C27: the hue index of the rainbow advances by exactly one per write and
\* wraps modulo the number of steps: the write after index steps - 1 uses
\* index 0, and every write at index 0 has the colour of the first write.
C27_HueIndexWraps ==
    /\ [](rb.written # <<>> /\ rb.written[1] = 0 => rb.written[2] = rb.first)
    /\ [][rb'.written # rb.written /\ rb.written # <<>>
            => rb'.written[1] = (rb.written[1] + 1) % RainbowSteps(rb.impl)]_vars

C27_Witness ==
    /\ rb.cycle = 1
    /\ rb.written # <<>>
    /\ rb.written[1] = 0
    /\ rb.pc = "sleep"


(***************************************************************************)
(* Claims about the pattern loops (checked under SpecPattern)              *)
(***************************************************************************)
\* C28: in every pattern, once stop_event is set the worker reads it before
\* it begins each further step: it begins at most the one step whose check
\* had already passed, and then it ends.
C28_StopWithinOneStep ==
    /\ [](pt.late <= 1)
    /\ [][pt'.parity # pt.parity => pt.checked]_vars
    /\ (pt.stop ~> pt.pc = "done")

C28_Witness ==
    /\ pt.pc = "done"
    /\ pt.late = 1
    /\ pt.pattern = "wave"
    /\ pt.k = 7

\* C38: the set_color calls of a flash, pulse or strobe worker alternate:
\* the first carries the on value (base_color at intensity 255), an on value
\* is followed by the off value of the pattern ((0,0,0) at intensity 0, for
\* pulse base_color at intensity 64) and an off value by the on value, so no
\* two consecutive writes carry the same phase.
C38_WritesAlternate ==
    [][(pt.pattern \in HalfPatterns /\ pt'.parity # pt.parity) =>
          /\ pt'.sent # pt.sent
          /\ pt'.sent = IF pt.sent = HalfValue(pt.pattern, 0)
                        THEN HalfValue(pt.pattern, 1)
                        ELSE HalfValue(pt.pattern, 0)]_vars

C38_Witness ==
    /\ pt.pattern = "pulse"
    /\ pt.sent = <<TRUE, 64>>
    /\ pt.pc = "write"
    /\ pt.k = 0


(***************************************************************************)
(* Claims about the watchdog (checked under SpecWatchdog)                  *)
(***************************************************************************)
\* C29: the watchdog only detects: a check logs one stall error exactly when
\* now minus the last heartbeat is above the threshold, and no step of the
\* watchdog thread writes to the device, starts or stops the engine, or
\* changes the heartbeat or the lease.
C29_WatchdogOnlyDetects ==
    /\ [][wd'.checks # wd.checks =>
            IF wd.now - wd.last_heartbeat > WATCHDOG_STALL_THRESHOLD_SEC
            THEN wd'.errors = wd.errors + 1
            ELSE wd'.errors = wd.errors]_vars
    /\ [][wd'.pc # wd.pc =>
            /\ wd'.device = wd.device
            /\ wd'.engine = wd.engine
            /\ wd'.last_heartbeat = wd.last_heartbeat
            /\ wd'.lease = wd.lease
            /\ wd'.watchdog_stop = wd.watchdog_stop]_vars
    /\ [][wd'.errors # wd.errors => wd'.checks # wd.checks]_vars

C29_Witness ==
    /\ wd.errors = 1
    /\ wd.pc = "sleep"
    /\ wd.wake = wd.now + WATCHDOG_INTERVAL_SEC
    /\ wd.now - wd.last_heartbeat > WATCHDOG_STALL_THRESHOLD_SEC
    /\ wd.engine
    /\ wd.device = 1


(***************************************************************************)
(* Claims about the command line (checked under SpecCli)                   *)
(***************************************************************************)
\* C30: a run with --mode sets the mode and then the process terminates,
\* for every mode, breathing included.
C30_CliTerminates == <>(cli.pc = "terminated")


(***************************************************************************)
(* Claims about closing the window and about current_style (under SpecApp) *)
(***************************************************************************)
\* C31: closing the window while an animation is running does not stop it:
\* when closeEvent has returned, the worker that was running is still alive.
C31_CloseKeepsAnimation ==
    (app.call.pc = "idle" /\ app.call.op = "stop" /\ app.call.then = "none"
        /\ ~app.call.idle)
        => ~KNoWorker

\* C37: between the calls of the controller, current_style is not static
\* only while a worker thread is alive.
C37_StyleImpliesWorker ==
    (app.call.pc = "idle" /\ Lower(app.style) # "static") => ~KNoWorker


(***************************************************************************)
(* Claims about the poll loop of the daemon (checked under SpecDaemon)     *)
(***************************************************************************)
\* C33: the poller of the state file runs until a shutdown signal arrives:
\* in every state reached without a signal the poll loop has not ended.
C33_PollerRunsUntilSignal == ~Signalled => PollerPc # "exited"


(***************************************************************************)
(* Claims about launches that overlap (checked under SpecRace)             *)
(***************************************************************************)
\* the instances that run
RunningInstances == {q \in Procs : ipc_pc[q] = "running"}

\* the processes that are instances: past the check, starting or running
Instances == {q \in Procs : ipc_pc[q] \in StartPcs \cup {"running"}}

\* C35: however the launchers interleave, at most one process ends up as
\* the running instance, and the cleanup of a launcher never deletes the
\* PID file or the socket of an instance that is alive.
C35_OneOwningInstance ==
    /\ [](Cardinality(RunningInstances) <= 1)
    /\ [][\A p \in Procs :
            (ipc_pc[p] = "l_cleanup" /\ ipc_pc'[p] # "l_cleanup")
               => /\ PID_FILE.exists => PID_FILE.text \notin Instances
                  /\ SOCKET_FILE.exists => SOCKET_FILE.owner \notin Instances]_vars


(***************************************************************************)
(* Claims about the daemon processes (checked under SpecDaemons)           *)
(***************************************************************************)
\* C32: no state record makes the daemon die: no daemon process is ended
\* by an exception, whatever the shape of the record it finds.
C32_NoRecordIsFatal == \A p \in DaemonPids : dm.d[p].pc # "died"

\* C34: every modification of the state record is applied exactly once: no
\* process calls start_animation twice for the same write of the file.
C34_AppliedOnce ==
    \A p \in DaemonPids :
        \A i, j \in 1..Len(dm.d[p].calls) : i # j => dm.d[p].calls[i] # dm.d[p].calls[j]

\* C36: at most one daemon process is running at any time.
C36_OneDaemon ==
    Cardinality({p \in DaemonPids : dm.d[p].pc \in {"m_load", "m_watch", "running"}}) <= 1

====
